---------------------------- MODULE Spec2Model ----------------------------
(***************************************************************************)
(* Model of python-simplezfs: the ZFS / ZPool front end (zfs.py, zpool.py),*)
(* the validators (validation.py), the command executor ZFSCli (zfs_cli.py)*)
(* and the privilege-escalation helpers (pe_helper.py).                    *)
(*                                                                         *)
(* Python strings are sequences of one-character strings, so that the      *)
(* validators, split, strip and concatenation are computed as the code     *)
(* computes them.  Python's None is the one-element sequence <<"None">>,   *)
(* which no string equals because "None" is not a character.               *)
(* Every method is an operator from the instance state and the arguments   *)
(* to the set of its possible outcomes                                     *)
(*   [exc, msg, ret, trace]                                                *)
(* one for every way the external processes can answer, where exc is       *)
(* "none" or the class of the exception that leaves the method and trace   *)
(* is the sequence of external interactions it made, answers included.     *)
(***************************************************************************)
EXTENDS Integers, Sequences, FiniteSets, TLC

VARIABLES cls, _metadata_namespace, _pe_helper, _pe_helper_mode, __exe, call

vars == <<cls, _metadata_namespace, _pe_helper, _pe_helper_mode, __exe, call>>

-----------------------------------------------------------------------------
(* Bounds of the model *)

\* dataset arguments include every string over NameAlphabet up to this length
MaxNameLen == 3
\* depth at which the recursion of ZFSCli._destroy_dataset ends in a
\* RecursionError (the interpreter's recursion limit)
MaxDestroyRuns == 2

-----------------------------------------------------------------------------
(* Python values *)

None == <<"None">>

\* the str of n copies of character c
Rep(c, n) == [i \in 1..n |-> c]

Lower == {"a","b","c","d","e","f","g","h","i","j","k","l","m",
          "n","o","p","q","r","s","t","u","v","w","x","y","z"}
Upper == {"A","B","C","D","E","F","G","H","I","J","K","L","M",
          "N","O","P","Q","R","S","T","U","V","W","X","Y","Z"}
Digit == {"0","1","2","3","4","5","6","7","8","9"}
Whitespace == {" ", "\t", "\n", "\r"}

\* all(s[i] in set for i in lo..hi)
AllIn(s, lo, hi, set) == \A i \in lo..hi : s[i] \in set

\* 'sub' in s, for a one-character sub
HasChar(s, c) == \E i \in 1..Len(s) : s[i] = c

\* s.startswith(p)
StartsWith(s, p) == Len(s) >= Len(p) /\ \A i \in 1..Len(p) : s[i] = p[i]

\* index of the first occurrence of c in s, 0 when there is none
FirstIndex(s, c) ==
    IF HasChar(s, c) THEN CHOOSE i \in 1..Len(s) : s[i] = c /\ \A j \in 1..(i-1) : s[j] # c
    ELSE 0

RECURSIVE Split(_, _)
\* s.split(c) for a one-character separator
Split(s, c) ==
    IF ~HasChar(s, c) THEN <<s>>
    ELSE LET i == FirstIndex(s, c)
         IN  <<SubSeq(s, 1, i - 1)>> \o Split(SubSeq(s, i + 1, Len(s)), c)

RECURSIVE Strip(_)
\* s.strip()
Strip(s) ==
    IF Len(s) = 0 THEN s
    ELSE IF s[1] \in Whitespace THEN Strip(Tail(s))
    ELSE IF s[Len(s)] \in Whitespace THEN Strip(SubSeq(s, 1, Len(s) - 1))
    ELSE s

\* characters outside ASCII, each written as one element of a string, and
\* the number of bytes of their UTF-8 encoding
U_E_ACUTE == "U+00E9"
U_EURO == "U+20AC"
U_GRINNING == "U+1F600"

NonAscii == {U_E_ACUTE, U_EURO, U_GRINNING}

Utf8Width(c) ==
    IF c = U_E_ACUTE THEN 2 ELSE IF c = U_EURO THEN 3 ELSE IF c = U_GRINNING THEN 4 ELSE 1

\* len(s.encode('utf-8')): one byte for every character and the further
\* bytes of the characters outside ASCII
Utf8Len(s) ==
    IF s \in Seq(STRING \ NonAscii) THEN Len(s)
    ELSE LET wide == {i \in 1..Len(s) : s[i] \in NonAscii}
         IN  Len(s) + Cardinality({i \in wide : Utf8Width(s[i]) = 2})
                    + 2 * Cardinality({i \in wide : Utf8Width(s[i]) = 3})
                    + 3 * Cardinality({i \in wide : Utf8Width(s[i]) = 4})

\* In the re module '$' matches at the end of the string and also just before
\* a newline that ends the string: the part of s a '...$' pattern has to cover
BeforeDollar(s) ==
    IF Len(s) > 0 /\ s[Len(s)] = "\n" THEN {s, SubSeq(s, 1, Len(s) - 1)} ELSE {s}

-----------------------------------------------------------------------------
(* validation.py *)

OK == "ok"

MAXNAMELEN == 256
NATIVE_PROPERTY_NAME_LEN_MAX == MAXNAMELEN
METADATA_PROPERTY_NAME_LEN_MAX == MAXNAMELEN
METADATA_PROPERTY_VALUE_LEN_MAX == 8192

PoolTailChars == Lower \cup Digit \cup {"-", "_", ":", " ", "."}
DatasetChars == Lower \cup Upper \cup Digit \cup {"_", "-", ".", ":"}
NativeTailChars == Lower \cup Digit
MetaHeadChars == Lower \cup Digit \cup {"_", "."}
MetaNsTailChars == MetaHeadChars \cup {"-"}
MetaKeyChars == Lower \cup Digit \cup {":", "_", ".", "-"}

\* re.match(r'^[a-z]([a-z0-9\-_: .]+)?$', name)
PoolNameReMatch(name) ==
    \E b \in BeforeDollar(name) :
        /\ Len(b) >= 1
        /\ b[1] \in Lower
        /\ AllIn(b, 2, Len(b), PoolTailChars)

\* re.match(r'^c[0-9]', name)
DiskNameReMatch(name) == Len(name) >= 2 /\ name[1] = "c" /\ name[2] \in Digit

\* DATASET_NAME_RE.match(name): "no" when there is no match, "detail" when
\* the group 'detail' took part in the match, "plain" otherwise
DATASET_NAME_RE(name) ==
    LET plain(b) == Len(b) >= 1 /\ AllIn(b, 1, Len(b), DatasetChars)
        detail(b) ==
            \E i \in 2..(Len(b) - 1) :
                /\ b[i] \in {"@", "#"}
                /\ AllIn(b, 1, i - 1, DatasetChars)
                /\ AllIn(b, i + 1, Len(b), DatasetChars)
    IN  IF \E b \in BeforeDollar(name) : detail(b) THEN "detail"
        ELSE IF \E b \in BeforeDollar(name) : plain(b) THEN "plain"
        ELSE "no"

\* NATIVE_PROPERTY_NAME_RE.match(name)
NATIVE_PROPERTY_NAME_RE(name) ==
    \E b \in BeforeDollar(name) :
        /\ Len(b) >= 1
        /\ b[1] \in Lower
        /\ AllIn(b, 2, Len(b), NativeTailChars)

\* METADATA_PROPERTY_NAME_RE.match(name): the namespace part cannot hold a
\* colon, so the separating colon is the first one
METADATA_PROPERTY_NAME_RE(name) ==
    \E b \in BeforeDollar(name) :
        LET i == FirstIndex(b, ":")
        IN  /\ i >= 1
            /\ i = 1 \/ (b[1] \in MetaHeadChars /\ AllIn(b, 2, i - 1, MetaNsTailChars))
            /\ Len(b) > i
            /\ AllIn(b, i + 1, Len(b), MetaKeyChars)

\* validate_pool_name(name): OK or the reason of the ValidationError
\* validate_pool_name that treats log like mirror, raidz and spare
validate_pool_name_log_prefix(name) ==
    IF Utf8Len(name) < 1 THEN "too short"
    ELSE IF ~PoolNameReMatch(name) THEN "malformed name"
    ELSE IF \E word \in {<<"m","i","r","r","o","r">>, <<"r","a","i","d","z">>,
                         <<"s","p","a","r","e">>, <<"l","o","g">>} : StartsWith(name, word)
         THEN "starts with invalid token"
    ELSE IF DiskNameReMatch(name) THEN "begins with reserved sequence c[0-9]"
    ELSE OK

validate_pool_name(name) ==
    IF Utf8Len(name) < 1 THEN "too short"
    ELSE IF ~PoolNameReMatch(name) THEN "malformed name"
    ELSE IF name \in {<<"m","i","r","r","o","r">>, <<"r","a","i","d","z">>,
                      <<"s","p","a","r","e">>, <<"l","o","g">>} THEN "reserved name"
    ELSE IF \E word \in {<<"m","i","r","r","o","r">>, <<"r","a","i","d","z">>,
                         <<"s","p","a","r","e">>} : StartsWith(name, word)
         THEN "starts with invalid token"
    ELSE IF DiskNameReMatch(name) THEN "begins with reserved sequence c[0-9]"
    ELSE OK

\* validate_dataset_name(name, strict=strict)
validate_dataset_name(name, strict) ==
    IF Utf8Len(name) < 1 THEN "name is too short"
    ELSE IF Utf8Len(name) > MAXNAMELEN - 1 THEN "length > 255"
    ELSE IF DATASET_NAME_RE(name) = "no" THEN "name contains disallowed characters"
    ELSE IF strict /\ DATASET_NAME_RE(name) = "detail"
         THEN "snapshot or bookmark identifier are not allowed in strict mode"
    ELSE OK

\* validate_dataset_path(path): the first failing check decides
validate_dataset_path(path) ==
    IF Utf8Len(path) < 3 THEN "path is too short"
    ELSE IF ~HasChar(path, "/") THEN "Not a path"
    ELSE IF path[1] = "/" THEN "zfs dataset paths are never absolute"
    ELSE LET tokens == Split(path, "/")
             n == Len(tokens)
             middle == {i \in 2..(n - 1) : validate_dataset_name(tokens[i], TRUE) # OK}
         IN  IF validate_pool_name(tokens[1]) # OK THEN validate_pool_name(tokens[1])
             ELSE IF middle # {}
                  THEN validate_dataset_name(
                           tokens[CHOOSE i \in middle : \A j \in middle : i <= j], TRUE)
             ELSE validate_dataset_name(tokens[n], FALSE)

\* validate_native_property_name(name)
validate_native_property_name(name) ==
    IF Utf8Len(name) < 1 THEN "name is too short"
    ELSE IF Utf8Len(name) > NATIVE_PROPERTY_NAME_LEN_MAX - 1 THEN "length > 255"
    ELSE IF ~NATIVE_PROPERTY_NAME_RE(name) THEN "property name does not match"
    ELSE OK

\* validate_metadata_property_name(name)
validate_metadata_property_name(name) ==
    IF Utf8Len(name) < 1 THEN "name is too short"
    ELSE IF Utf8Len(name) > METADATA_PROPERTY_NAME_LEN_MAX - 1 THEN "length > 255"
    ELSE IF ~METADATA_PROPERTY_NAME_RE(name) THEN "property name does not match"
    ELSE OK

\* validate_property_value(value)
\* validate_property_value with the limit one byte higher
validate_property_value_one_more(value) ==
    IF Utf8Len(value) > METADATA_PROPERTY_VALUE_LEN_MAX THEN "length > 8191"
    ELSE OK

validate_property_value(value) ==
    IF Utf8Len(value) > METADATA_PROPERTY_VALUE_LEN_MAX - 1 THEN "length > 8191"
    ELSE OK

\* the check every front-end method opens with:
\*   if '/' not in dataset: validate_pool_name(dataset)
\*   else: validate_dataset_path(dataset)
validate_dataset_identity(dataset) ==
    IF ~HasChar(dataset, "/") THEN validate_pool_name(dataset)
    ELSE validate_dataset_path(dataset)

-----------------------------------------------------------------------------
(* Outcomes and traces *)

\* the objects a method returns: None, a bool, a list (a Property is defined
\* with types.py); the arguments, which are strings or None, are sequences
PyNone == [pytype |-> "NoneType"]
\* a member of an enumeration
PyEnum(member) == [pytype |-> "Enum", member |-> member]
\* True and False where they are recorded as the argument of a call
Flag(b) == IF b THEN <<"True">> ELSE <<"False">>
IsSet(flag) == flag = <<"True">>
PyBool(b) == [pytype |-> "bool", v |-> b]
PyList(items) == [pytype |-> "list", items |-> items]

\* the method returns ret after the interactions in trace
Return(ret, trace) == [exc |-> "none", msg |-> "", ret |-> ret, trace |-> trace]

\* the method raises exc(msg) after the interactions in trace
Raise(exc, msg, trace) == [exc |-> exc, msg |-> msg, ret |-> PyNone, trace |-> trace]

\* outcome o of a callee, seen by a caller that already made the interactions in trace
After(trace, o) == [o EXCEPT !.trace = trace \o o.trace]

\* a call of one of the backend methods a ZFS subclass implements, the
\* exception it ended with ("none" when it returned) and what it returned
BackendCall(fn, args, exc, ret) ==
    [kind |-> "backend", fn |-> fn, args |-> args, exc |-> exc, ret |-> ret]

\* the outcomes of backend method fn(args) whose body has the given outcomes
Backend(fn, args, outcomes) ==
    {After(<<BackendCall(fn, args, o.exc, o.ret)>>, o) : o \in outcomes}

\* subprocess.run(argv): the process that was run and what it answered
ProcRun(argv, ans) ==
    [kind |-> "proc", argv |-> argv, rc |-> ans.rc, err |-> ans.err, out |-> ans.out]

\* a call of a method of the configured PE helper
HelperCall(cap, args) == [kind |-> "helper", cap |-> cap, args |-> args]

\* the entries of trace t of the given kind
OfKind(t, kind) == SelectSeq(t, LAMBDA e : e.kind = kind)

-----------------------------------------------------------------------------
(* Literal strings of the source *)

S_zfs == <<"z","f","s">>
S_get == <<"g","e","t">>
S_set == <<"s","e","t">>
S_destroy == <<"d","e","s","t","r","o","y">>
S_all == <<"a","l","l">>
S_type == <<"t","y","p","e">>
S_mountpoint == <<"m","o","u","n","t","p","o","i","n","t">>
S_mounted == <<"m","o","u","n","t","e","d">>
S_filesystem == <<"f","i","l","e","s","y","s","t","e","m">>
S_volume == <<"v","o","l","u","m","e">>
S_yes == <<"y","e","s">>
S_no == <<"n","o">>
S_dash == <<"-">>
S_local == <<"l","o","c","a","l">>
S_default == <<"d","e","f","a","u","l","t">>
S_inherited == <<"i","n","h","e","r","i","t","e","d">>
S_inherited_from == S_inherited \o <<" ","f","r","o","m"," ">>
S_temporary == <<"t","e","m","p","o","r","a","r","y">>
S_received == <<"r","e","c","e","i","v","e","d">>
S_none == <<"n","o","n","e">>
S_mount == <<"m","o","u","n","t">>
S_set_mountpoint == S_set \o <<"_">> \o S_mountpoint

\* the diagnostics the source looks for in stderr; a stderr text is a
\* sequence of phrases and 'phrase in proc.stderr' is Contains
D_NO_DATASET == "dataset does not exist"
D_BAD_PROPERTY == "bad property list: invalid property"
D_DENIED == "permission denied"
D_ROOT_MOUNT == "filesystem successfully created, but it may only be mounted by root"
D_HAS_CHILDREN == "has children"
D_CANNOT_DESTROY == "cannot destroy"
D_ONLY_ROOT == "only root can"
D_CANNOT_UMOUNT == "cannot umount"
D_UMOUNT_FAILED == "umount failed"
D_OTHER == "internal error"

Contains(err, phrase) == \E i \in 1..Len(err) : err[i] = phrase

-----------------------------------------------------------------------------
(* types.py *)

\* the members of PEHelperMode
DO_NOT_USE == <<"DO_NOT_USE">>
USE_IF_REQUIRED == <<"USE_IF_REQUIRED">>
USE_PROACTIVE == <<"USE_PROACTIVE">>
PEHelperMode == {DO_NOT_USE, USE_IF_REQUIRED, USE_PROACTIVE}

UpperSeq == <<"A","B","C","D","E","F","G","H","I","J","K","L","M",
              "N","O","P","Q","R","S","T","U","V","W","X","Y","Z">>
LowerSeq == <<"a","b","c","d","e","f","g","h","i","j","k","l","m",
              "n","o","p","q","r","s","t","u","v","w","x","y","z">>

\* s.lower()
ToLower(s) ==
    [i \in 1..Len(s) |->
        IF s[i] \in Upper THEN LowerSeq[CHOOSE k \in 1..26 : UpperSeq[k] = s[i]] ELSE s[i]]

\* PropertySource.from_string(value): the member, or "ValueError"
PropertySource_from_string(value) ==
    LET val == ToLower(value)
    IN  IF val = S_default THEN "DEFAULT"
        ELSE IF val = S_local THEN "LOCAL"
        ELSE IF val = S_inherited \/ StartsWith(val, S_inherited_from) THEN "INHERITED"
        ELSE IF val = S_temporary THEN "TEMPORARY"
        ELSE IF val = S_received THEN "RECEIVED"
        ELSE IF val \in {S_none, S_dash} THEN "NONE"
        ELSE "ValueError"

\* Property(key=, value=, source=, namespace=), a NamedTuple
Property(key, value, source, namespace) ==
    [pytype |-> "Property", key |-> key, value |-> value, source |-> source,
     namespace |-> namespace]

\* a str as an object
PyStr(s) == [pytype |-> "str", s |-> s]

\* a != b: a Property is a tuple, and a tuple and a str are never equal
PyNe(a, b) == IF a.pytype # b.pytype THEN TRUE ELSE a # b

-----------------------------------------------------------------------------
(* pe_helper.py *)

\* the path an ExternalPEHelper was given, the path shutil.which('sudo') found
EXTERNAL_EXE == <<"/","p","e">>
SUDO_EXE == <<"/","s","u","d","o">>

\* an instance of each helper class, and an instance of a class of the
\* caller: a PEHelperBase subclass that adds the method zfs_umount, which
\* ZFSCli._destroy_dataset calls and no class of pe_helper.py defines
ExternalPEHelper == <<"ExternalPEHelper">>
SudoPEHelper == <<"SudoPEHelper">>
UmountPEHelper == <<"UmountPEHelper">>
PEHelpers == {ExternalPEHelper, SudoPEHelper, UmountPEHelper}

\* the files of the machine: what os.lstat says of a path, and whether
\* os.access(path, os.X_OK) holds
EXECUTABLE_2 == <<"/","p","e","2">>
PLAIN_FILE == <<"/","h">>
DIRECTORY == <<"/">>
SYMLINK == <<"/","l">>
MISSING == <<"/","x">>

\* os.lstat(path).st_mode as the kind of file it stands for; "ENOENT" when
\* lstat raises FileNotFoundError.  A symbolic link is not followed
lstat(path) ==
    CASE path \in {EXTERNAL_EXE, EXECUTABLE_2, PLAIN_FILE} -> "S_IFREG"
      [] path = DIRECTORY -> "S_IFDIR"
      [] path = SYMLINK -> "S_IFLNK"
      [] OTHER -> "ENOENT"

\* os.access(path, os.X_OK)
access_X_OK(path) == path \in {EXTERNAL_EXE, EXECUTABLE_2, DIRECTORY, SYMLINK}

\* the setter that stores the candidate ahead of its checks
ExternalPEHelper_executable_setter_store_first(new_exe) ==
    LET candidate == Strip(new_exe)
    IN  IF lstat(candidate) = "ENOENT"
        THEN [exc |-> "FileNotFoundError", msg |-> "No such file or directory", exe |-> candidate]
        ELSE IF lstat(candidate) # "S_IFREG"
        THEN [exc |-> "FileNotFoundError", msg |-> "PE helper must be a file", exe |-> candidate]
        ELSE IF ~access_X_OK(candidate)
        THEN [exc |-> "FileNotFoundError", msg |-> "PE helper must be executable", exe |-> candidate]
        ELSE [exc |-> "none", msg |-> "", exe |-> candidate]

\* ExternalPEHelper.executable = new_exe: the error it raises and the value
\* of self.__exe after it
ExternalPEHelper_executable_setter(new_exe) ==
    LET candidate == Strip(new_exe)
    IN  IF lstat(candidate) = "ENOENT"
        THEN [exc |-> "FileNotFoundError", msg |-> "No such file or directory", exe |-> __exe]
        ELSE IF lstat(candidate) # "S_IFREG"
        THEN [exc |-> "FileNotFoundError", msg |-> "PE helper must be a file", exe |-> __exe]
        ELSE IF ~access_X_OK(candidate)
        THEN [exc |-> "FileNotFoundError", msg |-> "PE helper must be executable", exe |-> __exe]
        ELSE [exc |-> "none", msg |-> "", exe |-> candidate]

\* ExternalPEHelper._execute_cmd(cmd)
ExternalPEHelper_execute_cmd(cmd, ans) ==
    LET t == <<ProcRun(cmd, ans)>>
    IN  IF ans.rc # 0 \/ Len(ans.err) > 0
        THEN Raise("ExternalPEHelperException",
                   CASE ans.rc = 1 -> "General error"
                     [] ans.rc = 2 -> "Parent directory does not exist or is not a directory"
                     [] ans.rc = 3 -> "Parent dataset does not exist"
                     [] ans.rc = 4 -> "Target fileset is not a (grand)child of parent or parent does not exist"
                     [] ans.rc = 5 -> "Mountpoint is not inside the parent directory or otherwise invalid"
                     [] ans.rc = 6 -> "Calling the zfs utility failed"
                     [] OTHER -> "Unknown / Unhandled error with returncode", t)
        ELSE Return(PyNone, t)

\* _execute_cmd that runs a command of any length
SudoPEHelper_execute_cmd_any_length(cmd, ans) ==
    LET args == <<SUDO_EXE, <<"-","n">>>> \o cmd
    IN  IF ans.rc # 0 \/ Len(ans.err) > 0
        THEN Raise("PEHelperException", "Error running command", <<ProcRun(args, ans)>>)
        ELSE Return(PyNone, <<ProcRun(args, ans)>>)

\* SudoPEHelper._execute_cmd(cmd)
SudoPEHelper_execute_cmd(cmd, ans) ==
    LET args == <<SUDO_EXE, <<"-","n">>>> \o cmd
    IN  IF Len(args) < 4 THEN Raise("PEHelperException", "Command suspicously short", <<>>)
        ELSE IF ans.rc # 0 \/ Len(ans.err) > 0
             THEN Raise("PEHelperException", "Error running command", <<ProcRun(args, ans)>>)
        ELSE Return(PyNone, <<ProcRun(args, ans)>>)

\* helper.zfs_mount(fileset)
PEHelper_zfs_mount(helper, fileset, ans) ==
    IF helper = SudoPEHelper
    THEN IF validate_dataset_identity(fileset) # OK
         THEN Raise("ValidationError", validate_dataset_identity(fileset), <<>>)
         ELSE SudoPEHelper_execute_cmd(<<S_zfs, S_mount, fileset>>, ans)
    ELSE Raise("NotImplementedError", "has not implemented this function", <<>>)

\* helper.zfs_set_mountpoint(fileset, mountpoint)
PEHelper_zfs_set_mountpoint(helper, fileset, mountpoint, ans) ==
    IF helper = SudoPEHelper
    THEN IF validate_dataset_identity(fileset) # OK
         THEN Raise("ValidationError", validate_dataset_identity(fileset), <<>>)
         ELSE SudoPEHelper_execute_cmd(
                  <<S_zfs, S_set, S_mountpoint \o <<"=">> \o mountpoint, fileset>>, ans)
    ELSE IF helper = ExternalPEHelper
    THEN ExternalPEHelper_execute_cmd(
             <<__exe, S_set_mountpoint, fileset, mountpoint>>, ans)
    ELSE Raise("NotImplementedError", "has not implemented this function", <<>>)

\* helper.zfs_destroy_dataset(dataset, recursive, force_umount)
PEHelper_zfs_destroy_dataset(helper, dataset, recursive, force_umount, ans) ==
    IF helper = SudoPEHelper
    THEN IF ~HasChar(dataset, "/")
         THEN Raise("ValidationError", "Can't remove the pool itself", <<>>)
         ELSE IF validate_dataset_path(dataset) # OK
         THEN Raise("ValidationError", validate_dataset_path(dataset), <<>>)
         ELSE SudoPEHelper_execute_cmd(
                  <<S_zfs, S_destroy, <<"-","p">>>>
                  \o (IF recursive THEN << <<"-","r">> >> ELSE <<>>)
                  \o (IF force_umount THEN << <<"-","f">> >> ELSE <<>>)
                  \o <<dataset>>, ans)
    ELSE Raise("NotImplementedError", "has not implemented this function", <<>>)

\* helper.zfs_umount(dataset): no helper class of pe_helper.py defines the
\* attribute; the method of the caller's class unmounts or fails
PEHelper_zfs_umount(helper, dataset, ans) ==
    IF helper = UmountPEHelper
    THEN IF ans.rc # 0 \/ Len(ans.err) > 0
         THEN Raise("PEHelperException", "Error running command", <<>>)
         ELSE Return(PyNone, <<>>)
    ELSE Raise("AttributeError", "object has no attribute 'zfs_umount'", <<>>)

\* what a helper process can answer: success, a failure exit code, and
\* exit code 0 with a diagnostic on stderr
HelperAnswers ==
    {[rc |-> 0, err |-> <<>>, out |-> <<>>], [rc |-> 5, err |-> <<D_OTHER>>, out |-> <<>>],
     [rc |-> 0, err |-> <<D_OTHER>>, out |-> <<>>]}

\* self.pe_helper.<cap>(*args) as the front end calls it: the call itself is
\* recorded, followed by what the helper did
CallHelper(helper, cap, args) ==
    {After(<<HelperCall(cap, IF cap = "zfs_destroy_dataset"
                                 THEN <<args[1], Flag(args[2]), Flag(args[3])>> ELSE args)>>,
          CASE cap = "zfs_mount" -> PEHelper_zfs_mount(helper, args[1], ans)
            [] cap = "zfs_set_mountpoint" ->
                   PEHelper_zfs_set_mountpoint(helper, args[1], args[2], ans)
            [] cap = "zfs_destroy_dataset" ->
                   PEHelper_zfs_destroy_dataset(helper, args[1], args[2], args[3], ans)
            [] OTHER -> PEHelper_zfs_umount(helper, args[1], ans))
     : ans \in HelperAnswers}

-----------------------------------------------------------------------------
(* zfs_cli.py: the command executor *)

\* self.__exe
ZFS_EXE == <<"/","z","f","s">>

\* the classification with the rule for 'permission denied' ahead of the
\* rule for 'dataset does not exist'
handle_command_error_reordered(err) ==
    IF Contains(err, D_DENIED)
    THEN [exc |-> "builtins.PermissionError", msg |-> D_DENIED, text |-> err]
    ELSE IF Contains(err, D_NO_DATASET)
    THEN [exc |-> "DatasetNotFound", msg |-> "not found", text |-> <<>>]
    ELSE IF Contains(err, D_BAD_PROPERTY)
    THEN [exc |-> "PropertyNotFound", msg |-> "invalid property", text |-> <<>>]
    ELSE IF Contains(err, D_ROOT_MOUNT)
    THEN [exc |-> "builtins.PermissionError", msg |-> D_ROOT_MOUNT, text |-> err]
    ELSE [exc |-> "Exception", msg |-> "Command execution failed", text |-> err]

\* ZFSCli.handle_command_error(proc): the exception it raises, with the
\* stderr text the exception carries.  The module imports DatasetNotFound and
\* PropertyNotFound from .exceptions and nothing else, so the name
\* PermissionError in it is the builtin (an OSError)
handle_command_error(err) ==
    IF Contains(err, D_NO_DATASET)
    THEN [exc |-> "DatasetNotFound", msg |-> "not found", text |-> <<>>]
    ELSE IF Contains(err, D_BAD_PROPERTY)
    THEN [exc |-> "PropertyNotFound", msg |-> "invalid property", text |-> <<>>]
    ELSE IF Contains(err, D_DENIED)
    THEN [exc |-> "builtins.PermissionError", msg |-> D_DENIED, text |-> err]
    ELSE IF Contains(err, D_ROOT_MOUNT)
    THEN [exc |-> "builtins.PermissionError", msg |-> D_ROOT_MOUNT, text |-> err]
    ELSE [exc |-> "Exception", msg |-> "Command execution failed", text |-> err]

\* the stderr texts a failing zfs command can leave
FailureTexts ==
    {<<D_NO_DATASET>>, <<D_BAD_PROPERTY>>, <<D_DENIED>>, <<D_OTHER>>}

\* the failing answers of a zfs command; the last one exits with 0 and
\* still writes a diagnostic
ProcFailures ==
    {[rc |-> 1, err |-> e, out |-> <<>>] : e \in FailureTexts}
    \cup {[rc |-> 0, err |-> <<D_DENIED>>, out |-> <<>>]}

\* a name the zfs executable may print that is not the one asked for
OTHER_NAME == <<"x","/","y">>

\* values the zfs executable prints for a property; the first of each pair
\* is LocalValue
PropertyValues(key) ==
    CASE key = S_type -> {S_filesystem, S_volume}
      [] key = S_mounted -> {S_yes, S_no}
      [] key = S_mountpoint -> {<<"/","m">>, S_none}
      [] OTHER -> {S_yes, S_dash}

\* the value printed with the source 'local'
LocalValue(key) ==
    CASE key = S_type -> S_filesystem
      [] key = S_mountpoint -> <<"/","m">>
      [] OTHER -> S_yes

\* what `zfs get -H -p key dataset` can answer: one row of four fields, no
\* row at all, or a failure
GetAnswers(dataset, key) ==
    {[rc |-> 0, err |-> <<>>, out |-> << <<dataset, key, v, S_dash>> >>]
        : v \in PropertyValues(key)}
    \cup {[rc |-> 0, err |-> <<>>, out |-> << <<dataset, key, LocalValue(key), S_local>> >>],
          [rc |-> 0, err |-> <<>>, out |-> << <<OTHER_NAME, key, LocalValue(key), S_dash>> >>],
          [rc |-> 0, err |-> <<>>, out |-> << <<dataset, key, LocalValue(key), <<"?">> >> >>],
          [rc |-> 0, err |-> <<>>, out |-> <<>>]}
    \cup ProcFailures

RECURSIVE StripSplitTab(_)
\* proc.stdout.strip().split('\t') for an output of the given rows of fields
StripSplitTab(out) ==
    IF Len(out) = 0 THEN << <<>> >>
    ELSE IF Len(out) = 1 THEN out[1]
    ELSE LET r == out[1]
             rest == StripSplitTab(Tail(out))
         IN  SubSeq(r, 1, Len(r) - 1) \o <<r[Len(r)] \o <<"\n">> \o rest[1]>> \o Tail(rest)

\* _get_property that takes exit code 0 for success, whatever stderr holds
ZFSCli_get_property_body_lenient(dataset, key, is_metadata, ans) ==
    LET t == <<ProcRun(<<ZFS_EXE, S_get, <<"-","H">>, <<"-","p">>, key, dataset>>, ans)>>
        f == StripSplitTab(ans.out)
    IN  IF ans.rc # 0
        THEN Raise(handle_command_error(ans.err).exc, handle_command_error(ans.err).msg, t)
        ELSE IF Len(f) # 4 THEN Raise("ValueError", "values to unpack", t)
        ELSE IF f[1] # dataset THEN Raise("Exception", "expected name", t)
        ELSE IF is_metadata /\ f[3] = S_dash /\ f[4] = S_dash
             THEN Raise("PropertyNotFound", "Property was not found", t)
        ELSE IF PropertySource_from_string(f[4]) = "ValueError"
             THEN Raise("ValueError", "not a valid PropertySource", t)
        ELSE Return(Property(f[2], f[3], PropertySource_from_string(f[4]),
                             IF is_metadata THEN Split(f[2], ":")[1] ELSE None), t)

\* the body of ZFSCli._get_property for one answer of the process
ZFSCli_get_property_body(dataset, key, is_metadata, ans) ==
    LET t == <<ProcRun(<<ZFS_EXE, S_get, <<"-","H">>, <<"-","p">>, key, dataset>>, ans)>>
        f == StripSplitTab(ans.out)
    IN  IF ans.rc # 0 \/ Len(ans.err) > 0
        THEN Raise(handle_command_error(ans.err).exc, handle_command_error(ans.err).msg, t)
        ELSE IF Len(f) # 4 THEN Raise("ValueError", "values to unpack", t)
        ELSE IF f[1] # dataset THEN Raise("Exception", "expected name", t)
        ELSE IF is_metadata /\ f[3] = S_dash /\ f[4] = S_dash
             THEN Raise("PropertyNotFound", "Property was not found", t)
        ELSE IF PropertySource_from_string(f[4]) = "ValueError"
             THEN Raise("ValueError", "not a valid PropertySource", t)
        ELSE Return(Property(f[2], f[3], PropertySource_from_string(f[4]),
                             IF is_metadata THEN Split(f[2], ":")[1] ELSE None), t)

\* ZFSCli._get_property(dataset, key, is_metadata)
ZFSCli_get_property(dataset, key, is_metadata) ==
    {ZFSCli_get_property_body(dataset, key, is_metadata, ans) : ans \in GetAnswers(dataset, key)}

\* what `zfs set key=value dataset` can answer
SetAnswers == {[rc |-> 0, err |-> <<>>, out |-> <<>>]} \cup ProcFailures

\* ZFSCli._set_property(dataset, key, value, is_metadata)
ZFSCli_set_property(dataset, key, value, is_metadata) ==
    {LET t == <<ProcRun(<<ZFS_EXE, S_set, key \o <<"=">> \o value, dataset>>, ans)>>
     IN  IF ans.rc # 0 \/ Len(ans.err) > 0
         THEN Raise(handle_command_error(ans.err).exc, handle_command_error(ans.err).msg, t)
         ELSE Return(PyNone, t)
     : ans \in SetAnswers}

RECURSIVE LStrip(_, _)
\* s.lstrip(chars): drops leading characters that occur in chars
LStrip(s, chars) ==
    IF Len(s) > 0 /\ HasChar(chars, s[1]) THEN LStrip(Tail(s), chars) ELSE s

S_user_resu == <<"u","s","e","r",":","r","e","s","u">>
S_ns_k == <<"n","s",":","k">>

\* what `zfs get -H -p all dataset` can answer: rows of four fields
GetAllAnswers(dataset) ==
    {[rc |-> 0, err |-> <<>>, out |-> o] : o \in
        {<<>>,
         << <<dataset, S_type, S_filesystem, S_dash>> >>,
         << <<dataset, S_type, S_filesystem, S_dash>>,
            <<dataset, S_user_resu, S_yes, S_local>>,
            <<dataset, S_mountpoint, <<"/","m">>, S_default>> >>,
         << <<dataset, S_ns_k, S_no, S_local>>,
            <<dataset, S_type, S_volume, <<"?">> >> >>,
         << <<dataset, S_type, S_filesystem>> >>}}
    \cup ProcFailures

RECURSIVE ParseRows(_, _, _)
\* the loop of ZFSCli._get_properties over the non-empty lines of stdout:
\* the list res, or a ValueError when a line does not unpack or its source
\* is not a PropertySource
ParseRows(rows, include_metadata, res) ==
    IF Len(rows) = 0 THEN [exc |-> "none", res |-> res]
    ELSE LET f == rows[1]
         IN  IF Len(f) # 4 THEN [exc |-> "ValueError", res |-> res]
             ELSE IF PropertySource_from_string(f[4]) = "ValueError"
                  THEN [exc |-> "ValueError", res |-> res]
             ELSE IF HasChar(f[2], ":")
                  THEN IF include_metadata
                       THEN LET namespace == Split(f[2], ":")[1]
                            IN  ParseRows(Tail(rows), include_metadata,
                                    Append(res, Property(LStrip(f[2], namespace \o <<":">>), f[3],
                                                PropertySource_from_string(f[4]), namespace)))
                       ELSE ParseRows(Tail(rows), include_metadata, res)
             ELSE ParseRows(Tail(rows), include_metadata,
                      Append(res, Property(f[2], f[3], PropertySource_from_string(f[4]), None)))

\* _get_properties that reports the metadata rows whatever include_metadata says
ZFSCli_get_properties_with_metadata(dataset, include_metadata) ==
    {LET t == <<ProcRun(<<ZFS_EXE, S_get, <<"-","H">>, <<"-","p">>, S_all, dataset>>, ans)>>
         res == ParseRows(ans.out, TRUE, <<>>)
     IN  IF ans.rc # 0 \/ Len(ans.err) > 0
         THEN Raise(handle_command_error(ans.err).exc, handle_command_error(ans.err).msg, t)
         ELSE IF res.exc # "none" THEN Raise(res.exc, "values to unpack", t)
         ELSE Return(PyList(res.res), t)
     : ans \in GetAllAnswers(dataset)}

\* ZFSCli._get_properties(dataset, include_metadata)
ZFSCli_get_properties(dataset, include_metadata) ==
    {LET t == <<ProcRun(<<ZFS_EXE, S_get, <<"-","H">>, <<"-","p">>, S_all, dataset>>, ans)>>
         res == ParseRows(ans.out, include_metadata, <<>>)
     IN  IF ans.rc # 0 \/ Len(ans.err) > 0
         THEN Raise(handle_command_error(ans.err).exc, handle_command_error(ans.err).msg, t)
         ELSE IF res.exc # "none" THEN Raise(res.exc, "values to unpack", t)
         ELSE Return(PyList(res.res), t)
     : ans \in GetAllAnswers(dataset)}

-----------------------------------------------------------------------------
(* zfs.py: the backend methods of the base class *)

\* The base class leaves the backend methods to its subclasses: as written
\* they raise NotImplementedError, and an implementation (a subclass, or the
\* replacement the tests patch in) returns or raises one of the errors the
\* front end documents and handles.
BackendErrors ==
    {"NotImplementedError", "DatasetNotFound", "PropertyNotFound", "PermissionError",
     "PoolNotFound"}

\* ZFS._get_property(dataset, key, is_metadata)
ZFS_get_property(dataset, key, is_metadata) ==
    {Raise(e, "", <<>>) : e \in BackendErrors}
    \cup {Return(Property(key, v, "NONE", None), <<>>) : v \in {S_filesystem, S_volume}}

\* ZFS._set_property(dataset, key, value, is_metadata)
ZFS_set_property(dataset, key, value, is_metadata) ==
    {Raise(e, "", <<>>) : e \in BackendErrors} \cup {Return(PyNone, <<>>)}

\* ZFS._get_properties(dataset, include_metadata)
ZFS_get_properties(dataset, include_metadata) ==
    {Raise(e, "", <<>>) : e \in BackendErrors}
    \cup {Return(PyList(<<Property(S_type, S_filesystem, "NONE", None)>>), <<>>)}

\* self._get_property(...), dispatched on the class of self
_get_property(dataset, key, is_metadata) ==
    Backend("_get_property", <<dataset, key, Flag(is_metadata)>>,
            IF cls = "ZFSCli" THEN ZFSCli_get_property(dataset, key, is_metadata)
            ELSE ZFS_get_property(dataset, key, is_metadata))

\* self._set_property(...), dispatched on the class of self
_set_property(dataset, key, value, is_metadata) ==
    Backend("_set_property", <<dataset, key, value, Flag(is_metadata)>>,
            IF cls = "ZFSCli" THEN ZFSCli_set_property(dataset, key, value, is_metadata)
            ELSE ZFS_set_property(dataset, key, value, is_metadata))

\* self._get_properties(...), dispatched on the class of self
_get_properties(dataset, include_metadata) ==
    Backend("_get_properties", <<dataset, Flag(include_metadata)>>,
            IF cls = "ZFSCli" THEN ZFSCli_get_properties(dataset, include_metadata)
            ELSE ZFS_get_properties(dataset, include_metadata))

-----------------------------------------------------------------------------
(* zfs.py: the front end *)

\* bool(x) for an Optional[str]
Truthy(x) == x # None /\ Len(x) > 0

\* the outcomes of running next(o) after each normal outcome o of first;
\* an exception of first propagates
Then(first, next(_)) ==
    UNION {IF o.exc = "none" THEN {After(o.trace, n) : n \in next(o)} ELSE {o} : o \in first}

\* the getter without the check for a missing helper
pe_helper_mode_stored == _pe_helper_mode

\* ZFS.pe_helper_mode (ZPool.pe_helper_mode is the same code), the getter
pe_helper_mode ==
    IF _pe_helper = None THEN DO_NOT_USE ELSE _pe_helper_mode

\* ZFS.use_pe_helper, the getter
use_pe_helper == _pe_helper # None /\ _pe_helper_mode # DO_NOT_USE

\* the resolution that prefers the configured namespace to the override
ResolveMetadataName_configured_first(key, overwrite_metadata_namespace) ==
    IF Truthy(_metadata_namespace) THEN _metadata_namespace \o <<":">> \o key
    ELSE IF Truthy(overwrite_metadata_namespace)
    THEN overwrite_metadata_namespace \o <<":">> \o key
    ELSE None

\* the name get_property and set_property resolve for a metadata property:
\* None when no namespace is available
ResolveMetadataName(key, overwrite_metadata_namespace) ==
    IF Truthy(overwrite_metadata_namespace)
    THEN overwrite_metadata_namespace \o <<":">> \o key
    ELSE IF Truthy(_metadata_namespace) THEN _metadata_namespace \o <<":">> \o key
    ELSE None

\* get_property that rejects the key "all" for metadata properties as well
get_property_all_rejected(dataset, key, metadata, overwrite_metadata_namespace) ==
    LET prop_name == ResolveMetadataName(key, overwrite_metadata_namespace)
    IN  IF Strip(key) = S_all
        THEN {Raise("ValidationError", "\"all\" is not a valid property, use get_properties instead", <<>>)}
        ELSE IF validate_dataset_identity(dataset) # OK
        THEN {Raise("ValidationError", validate_dataset_identity(dataset), <<>>)}
        ELSE IF metadata
        THEN IF prop_name = None
             THEN {Raise("ValidationError", "no metadata namespace set", <<>>)}
             ELSE IF validate_metadata_property_name(prop_name) # OK
             THEN {Raise("ValidationError", validate_metadata_property_name(prop_name), <<>>)}
             ELSE _get_property(dataset, prop_name, TRUE)
        ELSE IF validate_native_property_name(key) # OK
        THEN {Raise("ValidationError", validate_native_property_name(key), <<>>)}
        ELSE _get_property(dataset, key, FALSE)

\* ZFS.get_property(dataset, key, metadata=, overwrite_metadata_namespace=)
get_property(dataset, key, metadata, overwrite_metadata_namespace) ==
    LET prop_name == ResolveMetadataName(key, overwrite_metadata_namespace)
    IN  IF Strip(key) = S_all /\ ~metadata
        THEN {Raise("ValidationError", "\"all\" is not a valid property, use get_properties instead", <<>>)}
        ELSE IF validate_dataset_identity(dataset) # OK
        THEN {Raise("ValidationError", validate_dataset_identity(dataset), <<>>)}
        ELSE IF metadata
        THEN IF prop_name = None
             THEN {Raise("ValidationError", "no metadata namespace set", <<>>)}
             ELSE IF validate_metadata_property_name(prop_name) # OK
             THEN {Raise("ValidationError", validate_metadata_property_name(prop_name), <<>>)}
             ELSE _get_property(dataset, prop_name, TRUE)
        ELSE IF validate_native_property_name(key) # OK
        THEN {Raise("ValidationError", validate_native_property_name(key), <<>>)}
        ELSE _get_property(dataset, key, FALSE)

\* set_property that turns to the helper when the backend reports a
\* permission failure
set_property_escalating(dataset, key, value, metadata, overwrite_metadata_namespace) ==
    LET prop_name == ResolveMetadataName(key, overwrite_metadata_namespace)
    IN  IF Strip(key) = S_all /\ ~metadata
        THEN {Raise("ValidationError", "\"all\" is not a valid property name", <<>>)}
        ELSE IF validate_dataset_identity(dataset) # OK
        THEN {Raise("ValidationError", validate_dataset_identity(dataset), <<>>)}
        ELSE IF metadata /\ prop_name = None
        THEN {Raise("ValidationError", "no metadata namespace set", <<>>)}
        ELSE IF metadata /\ validate_metadata_property_name(prop_name) # OK
        THEN {Raise("ValidationError", validate_metadata_property_name(prop_name), <<>>)}
        ELSE IF ~metadata /\ validate_native_property_name(key) # OK
        THEN {Raise("ValidationError", validate_native_property_name(key), <<>>)}
        ELSE IF validate_property_value(value) # OK
        THEN {Raise("ValidationError", validate_property_value(value), <<>>)}
        ELSE UNION {IF s.exc \in {"PermissionError", "builtins.PermissionError"}
                       /\ _pe_helper # None
                    THEN {After(s.trace, h) :
                            h \in CallHelper(_pe_helper, "zfs_set_mountpoint", <<dataset, value>>)}
                    ELSE {s}
                    : s \in _set_property(dataset, IF metadata THEN prop_name ELSE key,
                                          value, metadata)}

\* ZFS.set_property(dataset, key, value, metadata=, overwrite_metadata_namespace=)
set_property(dataset, key, value, metadata, overwrite_metadata_namespace) ==
    LET prop_name == ResolveMetadataName(key, overwrite_metadata_namespace)
    IN  IF Strip(key) = S_all /\ ~metadata
        THEN {Raise("ValidationError", "\"all\" is not a valid property name", <<>>)}
        ELSE IF validate_dataset_identity(dataset) # OK
        THEN {Raise("ValidationError", validate_dataset_identity(dataset), <<>>)}
        ELSE IF metadata /\ prop_name = None
        THEN {Raise("ValidationError", "no metadata namespace set", <<>>)}
        ELSE IF metadata /\ validate_metadata_property_name(prop_name) # OK
        THEN {Raise("ValidationError", validate_metadata_property_name(prop_name), <<>>)}
        ELSE IF ~metadata /\ validate_native_property_name(key) # OK
        THEN {Raise("ValidationError", validate_native_property_name(key), <<>>)}
        ELSE IF validate_property_value(value) # OK
        THEN {Raise("ValidationError", validate_property_value(value), <<>>)}
        ELSE _set_property(dataset, IF metadata THEN prop_name ELSE key, value, metadata)

\* get_properties that hands the dataset to the backend as it came
get_properties_unvalidated(dataset, include_metadata) ==
    _get_properties(dataset, include_metadata)

\* ZFS.get_properties(dataset, include_metadata=)
get_properties(dataset, include_metadata) ==
    IF validate_dataset_identity(dataset) # OK
    THEN {Raise("ValidationError", validate_dataset_identity(dataset), <<>>)}
    ELSE _get_properties(dataset, include_metadata)

\* ZFS.dataset_exists(name)
dataset_exists(name) ==
    {IF g.exc = "none" THEN Return(PyBool(g.ret.pytype # "NoneType"), g.trace)
     ELSE IF g.exc \in {"DatasetNotFound", "PermissionError", "PoolNotFound"}
          THEN Return(PyBool(FALSE), g.trace)
     ELSE IF g.exc = "PropertyNotFound" THEN Return(PyBool(TRUE), g.trace)
     ELSE g
     : g \in get_property(name, S_type, FALSE, None)}

\* ZFS.set_mountpoint(fileset, mountpoint, pe_helper_mode=mode)
set_mountpoint(fileset, mountpoint, mode) ==
    LET real_pe_helper_mode == IF mode # None THEN mode ELSE pe_helper_mode
        helper == CallHelper(_pe_helper, "zfs_set_mountpoint", <<fileset, mountpoint>>)
        attempt ==
            UNION {IF s.exc = "PermissionError"
                   THEN IF _pe_helper # None
                        THEN IF real_pe_helper_mode = USE_IF_REQUIRED
                             THEN {After(s.trace, h) : h \in helper}
                             ELSE {s}
                        ELSE {Return(PyNone, s.trace)}
                   ELSE {s}
                   : s \in set_property(fileset, S_mountpoint, mountpoint, FALSE, None)}
    IN  IF validate_dataset_identity(fileset) # OK
        THEN {Raise("ValidationError", validate_dataset_identity(fileset), <<>>)}
        ELSE IF validate_property_value(mountpoint) # OK
        THEN {Raise("ValidationError", validate_property_value(mountpoint), <<>>)}
        ELSE Then(get_property(fileset, S_type, FALSE, None),
                  LAMBDA ds_type :
                      IF PyNe(ds_type.ret, PyStr(S_filesystem))
                      THEN {Raise("ValidationError",
                                  "Dataset is not a filesystem and can't have its mountpoint set", <<>>)}
                      ELSE IF _pe_helper # None /\ real_pe_helper_mode = USE_PROACTIVE
                      THEN helper
                      ELSE attempt)

\* what `zfs destroy -p [-r] [-f] dataset` can answer
DestroyAnswers ==
    {[rc |-> 0, err |-> <<>>, out |-> <<>>], [rc |-> 0, err |-> <<D_OTHER>>, out |-> <<>>]}
    \cup {[rc |-> 1, err |-> e, out |-> <<>>] : e \in
            {<<D_HAS_CHILDREN>>, <<D_CANNOT_DESTROY, D_DENIED>>, <<D_ONLY_ROOT>>,
             <<D_CANNOT_UMOUNT, D_UMOUNT_FAILED>>, <<D_NO_DATASET>>, <<D_DENIED>>, <<D_OTHER>>}}

\* ZFS._destroy_dataset(dataset, recursive=, force_umount=) of the base class
ZFS_destroy_dataset(dataset, recursive, force_umount) ==
    {Raise(e, "", <<>>) : e \in BackendErrors} \cup {Return(PyNone, <<>>)}

\* the fallback that hands the destroy to the helper whenever one is set,
\* whatever the mode
destroy_permission_fallback_any_mode(dataset, recursive, force_umount) ==
    IF _pe_helper # None
    THEN CallHelper(_pe_helper, "zfs_destroy_dataset", <<dataset, recursive, force_umount>>)
    ELSE {Raise("builtins.PermissionError", "Cannot destroy: No pe_helper set", <<>>)}

\* the fallback that decides on the stored mode alone and calls the helper
\* without looking whether one is set
destroy_permission_fallback_stored_mode(dataset, recursive, force_umount) ==
    IF _pe_helper_mode # DO_NOT_USE
    THEN CallHelper(_pe_helper, "zfs_destroy_dataset", <<dataset, recursive, force_umount>>)
    ELSE {Raise("builtins.PermissionError", D_DENIED, <<>>)}

\* ZFSCli._destroy_dataset, the branch of a destroy command that was denied:
\* the helper destroys the dataset if the mode allows it
destroy_permission_fallback(dataset, recursive, force_umount) ==
    IF pe_helper_mode # DO_NOT_USE
    THEN IF _pe_helper # None
         THEN CallHelper(_pe_helper, "zfs_destroy_dataset", <<dataset, recursive, force_umount>>)
         ELSE {Raise("builtins.PermissionError", "Cannot destroy: No pe_helper set", <<>>)}
    ELSE {Raise("builtins.PermissionError", D_DENIED, <<>>)}

\* the proactive step taken in every mode that allows the helper
proactive_umount_any_mode(dataset) ==
    IF _pe_helper # None /\ pe_helper_mode # DO_NOT_USE
    THEN Then(get_property(dataset, S_mounted, FALSE, None),
              LAMBDA test_prop :
                  IF test_prop.ret.value = S_yes
                  THEN CallHelper(_pe_helper, "zfs_umount", <<dataset>>)
                  ELSE {Return(PyNone, <<>>)})
    ELSE {Return(PyNone, <<>>)}

\* ZFSCli._destroy_dataset, the step ahead of the destroy command: with a
\* helper and the mode USE_PROACTIVE a mounted dataset is unmounted by the
\* helper
proactive_umount(dataset) ==
    IF _pe_helper # None /\ pe_helper_mode = USE_PROACTIVE
    THEN Then(get_property(dataset, S_mounted, FALSE, None),
              LAMBDA test_prop :
                  IF test_prop.ret.value = S_yes
                  THEN CallHelper(_pe_helper, "zfs_umount", <<dataset>>)
                  ELSE {Return(PyNone, <<>>)})
    ELSE {Return(PyNone, <<>>)}

RECURSIVE ZFSCli_destroy_dataset(_, _, _, _)
\* ZFSCli._destroy_dataset(dataset, recursive=, force_umount=); runs is the
\* depth the recursion may still reach
ZFSCli_destroy_dataset(dataset, recursive, force_umount, runs) ==
    LET args == <<ZFS_EXE, S_destroy, <<"-","p">>>>
                \o (IF recursive THEN << <<"-","r">> >> ELSE <<>>)
                \o (IF force_umount THEN << <<"-","f">> >> ELSE <<>>)
                \o <<dataset>>
        umount == CallHelper(_pe_helper, "zfs_umount", <<dataset>>)
        proactive == proactive_umount(dataset)
        failed(ans) ==
            IF Contains(ans.err, D_HAS_CHILDREN)
            THEN IF recursive THEN {Return(PyNone, <<>>)} ELSE {Raise("Exception", "", <<>>)}
            ELSE IF (Contains(ans.err, D_CANNOT_DESTROY) /\ Contains(ans.err, D_DENIED))
                    \/ Contains(ans.err, D_ONLY_ROOT)
            THEN destroy_permission_fallback(dataset, recursive, force_umount)
            ELSE IF Contains(ans.err, D_CANNOT_UMOUNT) /\ Contains(ans.err, D_UMOUNT_FAILED)
            THEN IF _pe_helper # None /\ pe_helper_mode # DO_NOT_USE
                 THEN Then(umount,
                           LAMBDA u : Backend("_destroy_dataset",
                                              <<dataset, Flag(recursive), Flag(force_umount)>>,
                               ZFSCli_destroy_dataset(dataset, recursive, force_umount, runs - 1)))
                 ELSE {Raise("builtins.PermissionError",
                             "Umounting failed and pe_helper is not allowed", <<>>)}
            ELSE {Raise(handle_command_error(ans.err).exc, handle_command_error(ans.err).msg, <<>>)}
    IN  IF runs = 0
        THEN {Raise("RecursionError", "maximum recursion depth exceeded", <<>>)}
        ELSE Then(proactive,
                  LAMBDA p :
                      UNION {IF ans.rc # 0 \/ Len(ans.err) > 0
                             THEN {After(<<ProcRun(args, ans)>>, o) : o \in failed(ans)}
                             ELSE {Return(PyNone, <<ProcRun(args, ans)>>)}
                             : ans \in DestroyAnswers})

\* self._destroy_dataset(...), dispatched on the class of self
_destroy_dataset(dataset, recursive, force_umount) ==
    Backend("_destroy_dataset", <<dataset, Flag(recursive), Flag(force_umount)>>,
            IF cls = "ZFSCli"
            THEN ZFSCli_destroy_dataset(dataset, recursive, force_umount, MaxDestroyRuns)
            ELSE ZFS_destroy_dataset(dataset, recursive, force_umount))

\* destroy_dataset that validates its argument the way the property methods
\* do, which lets a pool name through
destroy_dataset_identity(dataset, recursive, force_umount) ==
    IF validate_dataset_identity(dataset) # OK
    THEN {Raise("ValidationError", validate_dataset_identity(dataset), <<>>)}
    ELSE Then(dataset_exists(dataset),
              LAMBDA exists :
                  IF ~exists.ret.v
                  THEN {Raise("DatasetNotFound", "The dataset could not be found", <<>>)}
                  ELSE _destroy_dataset(dataset, recursive, force_umount))

\* destroy_dataset that does not look at the result of the existence probe
destroy_dataset_unprobed(dataset, recursive, force_umount) ==
    IF ~HasChar(dataset, "/")
    THEN {Raise("ValidationError", "Cannot destroy the pool using this function", <<>>)}
    ELSE IF validate_dataset_path(dataset) # OK
    THEN {Raise("ValidationError", validate_dataset_path(dataset), <<>>)}
    ELSE Then(dataset_exists(dataset),
              LAMBDA exists : _destroy_dataset(dataset, recursive, force_umount))

\* ZFS.destroy_dataset(dataset, recursive=, force_umount=)
destroy_dataset(dataset, recursive, force_umount) ==
    IF ~HasChar(dataset, "/")
    THEN {Raise("ValidationError", "Cannot destroy the pool using this function", <<>>)}
    ELSE IF validate_dataset_path(dataset) # OK
    THEN {Raise("ValidationError", validate_dataset_path(dataset), <<>>)}
    ELSE Then(dataset_exists(dataset),
              LAMBDA exists :
                  IF ~exists.ret.v
                  THEN {Raise("DatasetNotFound", "The dataset could not be found", <<>>)}
                  ELSE _destroy_dataset(dataset, recursive, force_umount))

-----------------------------------------------------------------------------
(* Creating a fileset: types.py Dataset, zfs_cli.py and zfs.py *)

S_create == <<"c","r","e","a","t","e">>
S_list == <<"l","i","s","t">>

\* a Dict[str, str]: its items in the order of insertion, each <<key, value>>
PyDict(items) == [pytype |-> "dict", items |-> items]

\* bool(d) for an Optional[Dict]
TruthyDict(d) == d.pytype = "dict" /\ Len(d.items) > 0

\* key in d
DictHas(d, key) == \E i \in 1..Len(d.items) : d.items[i][1] = key

\* d[key]
DictGet(d, key) == d.items[CHOOSE i \in 1..Len(d.items) : d.items[i][1] = key][2]

\* d[key] = value
DictSet(d, key, value) ==
    IF DictHas(d, key)
    THEN PyDict([i \in 1..Len(d.items) |->
                    IF d.items[i][1] = key THEN <<key, value>> ELSE d.items[i]])
    ELSE PyDict(Append(d.items, <<key, value>>))

RECURSIVE ItemsRepr(_)
ItemsRepr(items) ==
    IF Len(items) = 0 THEN <<>>
    ELSE items[1][1] \o <<":">> \o items[1][2] \o <<",">> \o ItemsRepr(Tail(items))

\* an Optional[Dict] as it is recorded with a call
DictRepr(d) == IF d.pytype = "NoneType" THEN None ELSE <<"{">> \o ItemsRepr(d.items) \o <<"}">>

\* the '-o', 'key=value' arguments of the items of d
PropArgs(d) ==
    IF TruthyDict(d)
    THEN [i \in 1..(2 * Len(d.items)) |->
             IF i % 2 = 1 THEN <<"-","o">>
             ELSE d.items[i \div 2][1] \o <<"=">> \o d.items[i \div 2][2]]
    ELSE <<>>

\* index of the last occurrence of c in s, 0 when there is none
LastIndex(s, c) ==
    IF HasChar(s, c) THEN CHOOSE i \in 1..Len(s) : s[i] = c /\ \A j \in (i+1)..Len(s) : s[j] # c
    ELSE 0

\* the NamedTuple Dataset
Dataset(name, full_path, pool, parent, type) ==
    [pytype |-> "Dataset", name |-> name, full_path |-> full_path, pool |-> pool,
     parent |-> parent, type |-> type]

\* Dataset.from_string(value); is_zvol says whether /dev/zvol/<value> exists
\* from_string that takes the pool for the parent
Dataset_from_string_pool_parent(value, is_zvol) ==
    LET slash == HasChar(value, "/")
        ds_name == IF slash THEN SubSeq(value, LastIndex(value, "/") + 1, Len(value)) ELSE value
        ds_pool == IF slash THEN Split(value, "/")[1] ELSE value
    IN  IF validate_dataset_identity(value) # OK
        THEN Raise("ValidationError", validate_dataset_identity(value), <<>>)
        ELSE Return(Dataset(ds_name, value, ds_pool, IF slash THEN ds_pool ELSE None,
                            IF is_zvol THEN "volume" ELSE "fileset"), <<>>)

Dataset_from_string(value, is_zvol) ==
    LET slash == HasChar(value, "/")
        ds_name == IF slash THEN SubSeq(value, LastIndex(value, "/") + 1, Len(value)) ELSE value
        ds_parent == IF slash THEN SubSeq(value, 1, LastIndex(value, "/") - 1) ELSE None
        ds_pool == IF slash THEN Split(value, "/")[1] ELSE value
        ds_type == IF HasChar(ds_name, "@") THEN "snapshot"
                   ELSE IF HasChar(ds_name, "#") THEN "bookmark"
                   ELSE IF is_zvol THEN "volume"
                   ELSE "fileset"
    IN  IF validate_dataset_identity(value) # OK
        THEN Raise("ValidationError", validate_dataset_identity(value), <<>>)
        ELSE Return(Dataset(ds_name, value, ds_pool, ds_parent, ds_type), <<>>)

\* what `zfs list -H -t all name` can answer: a row of five fields that
\* starts with the name, no row, or a failure
ListAnswers(name) ==
    {[rc |-> 0, err |-> <<>>, out |-> o] : o \in
        {<< <<name, <<"1">>, <<"1">>, <<"1">>, <<"/","m">> >> >>,
         << <<OTHER_NAME, <<"1">>, <<"1">>, <<"1">>, S_none>> >>,
         <<>>}}
    \cup ProcFailures

\* ZFSCli.get_dataset_info(name)
get_dataset_info(name) ==
    IF validate_dataset_identity(name) # OK
    THEN {Raise("ValidationError", validate_dataset_identity(name), <<>>)}
    ELSE UNION {LET t == <<ProcRun(<<ZFS_EXE, S_list, <<"-","H">>, <<"-","t">>, S_all, name>>, ans)>>
                    first == IF Len(ans.out) = 0 THEN <<>> ELSE Strip(ans.out[1][1])
                IN  IF ans.rc # 0 \/ Len(ans.err) > 0
                    THEN {Raise(handle_command_error(ans.err).exc,
                                handle_command_error(ans.err).msg, t)}
                    ELSE {After(t, Dataset_from_string(first, is_zvol)) : is_zvol \in BOOLEAN}
                : ans \in ListAnswers(name)}

\* what `zfs list -H -r -t all [parent]` can answer: rows of five fields,
\* no output, or a failure
ListAllAnswers ==
    {[rc |-> 0, err |-> <<>>, out |-> o] : o \in
        {<<>>,
         << <<<<"t">>, <<"1">>, <<"1">>, <<"1">>, <<"/","t">> >> >>,
         << <<<<"t">>, <<"1">>, <<"1">>, <<"1">>, <<"/","t">> >>,
            <<<<"t","/","a","@","s">>, <<"1">>, <<"1">>, <<"1">>, S_dash>> >>}}
    \cup ProcFailures

RECURSIVE ListRows(_, _)
\* the loop of ZFSCli.list_datasets over the lines of stdout: the outcomes
\* that end with the list res, or with the ValidationError of a line
ListRows(rows, res) ==
    IF Len(rows) = 0 THEN {Return(PyList(res), <<>>)}
    ELSE UNION {LET d == Dataset_from_string(Strip(rows[1][1]), is_zvol)
                IN  IF d.exc # "none" THEN {d} ELSE ListRows(Tail(rows), Append(res, d.ret))
                : is_zvol \in BOOLEAN}

\* ZFSCli.list_datasets(parent=): parent is None, a str or a Dataset.  An
\* empty stdout splits into one empty line.
ZFSCli_list_datasets(parent) ==
    LET given == parent.pytype = "Dataset" \/ (parent.pytype = "str" /\ Len(parent.s) > 0)
        parent_path == IF parent.pytype = "Dataset" THEN parent.full_path ELSE parent.s
        args == <<ZFS_EXE, S_list, <<"-","H">>, <<"-","r">>, <<"-","t">>, S_all>>
                \o (IF given THEN <<parent_path>> ELSE <<>>)
    IN  IF given /\ validate_dataset_identity(parent_path) # OK
        THEN {Raise("ValidationError", validate_dataset_identity(parent_path), <<>>)}
        ELSE UNION {LET t == <<ProcRun(args, ans)>>
                    IN  IF ans.rc # 0 \/ Len(ans.err) > 0
                        THEN {Raise(handle_command_error(ans.err).exc,
                                    handle_command_error(ans.err).msg, t)}
                        ELSE {After(t, o) :
                                o \in ListRows(IF Len(ans.out) = 0 THEN << <<<<>>>> >> ELSE ans.out,
                                               <<>>)}
                    : ans \in ListAllAnswers}

\* ZFS.list_datasets(parent=), which the base class leaves to ZFSCli
list_datasets(parent) ==
    IF cls = "ZFSCli" THEN ZFSCli_list_datasets(parent)
    ELSE {Raise("NotImplementedError", "has not implemented this function", <<>>)}

\* what `zfs create [-p] [-o key=value]... name` can answer
CreateAnswers ==
    {[rc |-> 0, err |-> <<>>, out |-> <<>>],
     [rc |-> 1, err |-> <<D_ROOT_MOUNT>>, out |-> <<>>],
     [rc |-> 0, err |-> <<D_ROOT_MOUNT>>, out |-> <<>>]}
    \cup ProcFailures

\* ZFS._create_fileset(name, properties, metadata_properties, recursive) of
\* the base class
ZFS_create_fileset(name, properties, metadata_properties, recursive) ==
    {Raise(e, "", <<>>) : e \in BackendErrors}
    \cup {Return(Dataset_from_string(name, FALSE).ret, <<>>)}

\* the fallback that sets the mountpoint and mounts without looking at the
\* state of the fileset
create_mount_fallback_unprobed(name, properties) ==
    IF pe_helper_mode # DO_NOT_USE
    THEN IF TruthyDict(properties) /\ DictHas(properties, S_mountpoint)
         THEN IF _pe_helper # None
              THEN Then(CallHelper(_pe_helper, "zfs_set_mountpoint",
                                   <<name, DictGet(properties, S_mountpoint)>>),
                        LAMBDA a : Then(CallHelper(_pe_helper, "zfs_mount", <<name>>),
                                        LAMBDA b : get_dataset_info(name)))
              ELSE {Raise("builtins.PermissionError",
                          "Fileset created partially but no PE helper set", <<>>)}
         ELSE {Raise("builtins.PermissionError",
                     "Mountpoint property not set, can't run pe_helper", <<>>)}
    ELSE {Raise("builtins.PermissionError", D_ROOT_MOUNT, <<>>)}

\* the fallback that reports the fileset as created when the mode forbids
\* the helper
create_mount_fallback_silent(name, properties) ==
    IF pe_helper_mode # DO_NOT_USE
    THEN create_mount_fallback_unprobed(name, properties)
    ELSE get_dataset_info(name)

\* ZFSCli._create_fileset, the branch of a fileset that was created and can
\* only be mounted by root
create_mount_fallback(name, properties) ==
    IF pe_helper_mode # DO_NOT_USE
    THEN IF TruthyDict(properties) /\ DictHas(properties, S_mountpoint)
         THEN IF _pe_helper # None
              THEN LET mopo == DictGet(properties, S_mountpoint)
                       set_mp == Then(get_property(name, S_mountpoint, FALSE, None),
                                      LAMBDA test_prop :
                                          IF test_prop.ret.value = mopo
                                          THEN {Return(PyNone, <<>>)}
                                          ELSE CallHelper(_pe_helper, "zfs_set_mountpoint",
                                                          <<name, mopo>>))
                       mount == Then(get_property(name, S_mounted, FALSE, None),
                                     LAMBDA test_prop :
                                         IF test_prop.ret.value = S_yes
                                         THEN {Return(PyNone, <<>>)}
                                         ELSE CallHelper(_pe_helper, "zfs_mount", <<name>>))
                   IN  Then(set_mp, LAMBDA a : Then(mount, LAMBDA b : get_dataset_info(name)))
              ELSE {Raise("builtins.PermissionError",
                          "Fileset created partially but no PE helper set", <<>>)}
         ELSE {Raise("builtins.PermissionError",
                     "Mountpoint property not set, can't run pe_helper", <<>>)}
    ELSE {Raise("builtins.PermissionError", D_ROOT_MOUNT, <<>>)}

\* _create_fileset that takes the helper branch after every failed create
\* command, whatever its diagnostic
ZFSCli_create_fileset_any_failure(name, properties, metadata_properties, recursive) ==
    LET args == <<ZFS_EXE, S_create>> \o (IF recursive THEN << <<"-","p">> >> ELSE <<>>)
                \o PropArgs(properties) \o PropArgs(metadata_properties) \o <<name>>
    IN  UNION {LET t == <<ProcRun(args, ans)>>
               IN  IF ans.rc # 0 \/ Len(ans.err) > 0
                   THEN {After(t, o) : o \in create_mount_fallback(name, properties)}
                   ELSE {After(t, o) : o \in get_dataset_info(name)}
               : ans \in CreateAnswers}

\* ZFSCli._create_fileset(name, properties, metadata_properties, recursive)
ZFSCli_create_fileset(name, properties, metadata_properties, recursive) ==
    LET args == <<ZFS_EXE, S_create>> \o (IF recursive THEN << <<"-","p">> >> ELSE <<>>)
                \o PropArgs(properties) \o PropArgs(metadata_properties) \o <<name>>
    IN  UNION {LET t == <<ProcRun(args, ans)>>
               IN  IF ans.rc # 0 \/ Len(ans.err) > 0
                   THEN IF Contains(ans.err, D_ROOT_MOUNT)
                        THEN {After(t, o) : o \in create_mount_fallback(name, properties)}
                        ELSE {Raise(handle_command_error(ans.err).exc,
                                    handle_command_error(ans.err).msg, t)}
                   ELSE {After(t, o) : o \in get_dataset_info(name)}
               : ans \in CreateAnswers}

\* self._create_fileset(...), dispatched on the class of self
_create_fileset(name, properties, metadata_properties, recursive) ==
    Backend("_create_fileset",
            <<name, DictRepr(properties), DictRepr(metadata_properties), Flag(recursive)>>,
            IF cls = "ZFSCli"
            THEN ZFSCli_create_fileset(name, properties, metadata_properties, recursive)
            ELSE ZFS_create_fileset(name, properties, metadata_properties, recursive))

\* an int as an object
PyInt(n) == [pytype |-> "int", v |-> n]

\* `if size`, `not size`: None and 0 are false
TruthyInt(x) == x.pytype = "int" /\ x.v # 0

DecimalDigits == <<"0","1","2","3","4","5","6","7","8","9">>

RECURSIVE NatStr(_)
\* str(n) of an int that is not negative
NatStr(n) == IF n < 10 THEN <<DecimalDigits[n + 1]>> ELSE NatStr(n \div 10) \o <<DecimalDigits[(n % 10) + 1]>>

\* str(n), f'{n}'
IntStr(n) == IF n < 0 THEN <<"-">> \o NatStr(0 - n) ELSE NatStr(n)

RECURSIVE DigitsValue(_, _)
\* the value of a sequence of decimal digits, most significant first
DigitsValue(s, acc) ==
    IF Len(s) = 0 THEN acc
    ELSE DigitsValue(Tail(s), 10 * acc + (CHOOSE d \in 0..9 : DecimalDigits[d + 1] = s[1]))

\* int(s) of a str: blanks around the number, a sign and single underscores
\* between digits are allowed; anything else is a ValueError
IntParse(s) ==
    LET t == Strip(s)
        signed == Len(t) > 0 /\ t[1] \in {"+", "-"}
        body == IF signed THEN Tail(t) ELSE t
        grouped == /\ Len(body) > 0
                   /\ \A i \in 1..Len(body) :
                          \/ body[i] \in Digit
                          \/ /\ body[i] = "_"
                             /\ i > 1 /\ i < Len(body)
                             /\ body[i-1] \in Digit /\ body[i+1] \in Digit
        digits == SelectSeq(body, LAMBDA c : c # "_")
    IN  IF ~grouped THEN [ok |-> FALSE, v |-> 0]
        ELSE [ok |-> TRUE,
              v |-> IF signed /\ t[1] = "-" THEN 0 - DigitsValue(digits, 0)
                    ELSE DigitsValue(digits, 0)]

RECURSIVE BitAnd(_, _)
\* a & b of two ints that are not negative
BitAnd(a, b) ==
    IF a = 0 \/ b = 0 THEN 0
    ELSE (a % 2) * (b % 2) + 2 * BitAnd(a \div 2, b \div 2)

S_blocksize == <<"b","l","o","c","k","s","i","z","e">>

\* create_dataset, the checks of the size and the blocksize of a volume: OK
\* or the reason of the ValidationError
ValidateVolume(properties, size) ==
    LET parsed == IntParse(DictGet(properties, S_blocksize))
        blocksize == parsed.v
    IN  IF ~TruthyInt(size) THEN "Size must be specified for volumes"
        ELSE IF size.v < 1 THEN "Size is too low"
        ELSE IF TruthyDict(properties) /\ DictHas(properties, S_blocksize)
        THEN IF ~parsed.ok THEN "blocksize must be an integer"
             ELSE IF blocksize < 2 \/ blocksize > 128 * 1024
             THEN "blocksize must be between 2 and 128kb (inclusive)"
             ELSE IF ~(BitAnd(blocksize, blocksize - 1) = 0 /\ blocksize # 0)
             THEN "blocksize must be a power of two"
             ELSE OK
        ELSE OK

\* what `zfs create ...` of a volume or a snapshot can answer
CreateVolumeAnswers == {[rc |-> 0, err |-> <<>>, out |-> <<>>]} \cup ProcFailures

\* ZFSCli._create_volume(name, properties, metadata_properties, sparse, size,
\* recursive)
ZFSCli_create_volume(name, properties, metadata_properties, sparse, size, recursive) ==
    LET args == <<ZFS_EXE, S_create>> \o (IF sparse THEN << <<"-","s">> >> ELSE <<>>)
                \o (IF recursive THEN << <<"-","p">> >> ELSE <<>>)
                \o PropArgs(properties) \o PropArgs(metadata_properties)
                \o << <<"-","V">>, IntStr(size.v), name >>
    IN  UNION {LET t == <<ProcRun(args, ans)>>
               IN  IF ans.rc # 0 \/ Len(ans.err) > 0
                   THEN {Raise(handle_command_error(ans.err).exc,
                               handle_command_error(ans.err).msg, t)}
                   ELSE {After(t, o) : o \in get_dataset_info(name)}
               : ans \in CreateVolumeAnswers}

\* ZFSCli._create_snapshot(name, properties, metadata_properties, recursive):
\* the command is `zfs create` with the properties and without the name
ZFSCli_create_snapshot(name, properties, metadata_properties, recursive) ==
    LET args == <<ZFS_EXE, S_create>> \o (IF recursive THEN << <<"-","r">> >> ELSE <<>>)
                \o PropArgs(properties) \o PropArgs(metadata_properties)
    IN  UNION {LET t == <<ProcRun(args, ans)>>
               IN  IF ans.rc # 0 \/ Len(ans.err) > 0
                   THEN {Raise(handle_command_error(ans.err).exc,
                               handle_command_error(ans.err).msg, t)}
                   ELSE {After(t, o) : o \in get_dataset_info(name)}
               : ans \in CreateVolumeAnswers}

\* self._create_volume(...), dispatched on the class of self
_create_volume(name, properties, metadata_properties, sparse, size, recursive) ==
    Backend("_create_volume",
            <<name, DictRepr(properties), DictRepr(metadata_properties), Flag(sparse),
              IntStr(size.v), Flag(recursive)>>,
            IF cls = "ZFSCli"
            THEN ZFSCli_create_volume(name, properties, metadata_properties, sparse, size,
                                      recursive)
            ELSE ZFS_create_fileset(name, properties, metadata_properties, recursive))

\* self._create_snapshot(...), dispatched on the class of self
_create_snapshot(name, properties, metadata_properties, recursive) ==
    Backend("_create_snapshot",
            <<name, DictRepr(properties), DictRepr(metadata_properties), Flag(recursive)>>,
            IF cls = "ZFSCli"
            THEN ZFSCli_create_snapshot(name, properties, metadata_properties, recursive)
            ELSE ZFS_create_fileset(name, properties, metadata_properties, recursive))

\* the members of DatasetType
DatasetType_FILESET == <<"FILESET">>
DatasetType_VOLUME == <<"VOLUME">>
DatasetType_SNAPSHOT == <<"SNAPSHOT">>
DatasetType_BOOKMARK == <<"BOOKMARK">>
DatasetType == {DatasetType_FILESET, DatasetType_VOLUME, DatasetType_SNAPSHOT,
                DatasetType_BOOKMARK}

RECURSIVE ValidateProperties(_)
\* the loop of create_dataset over properties.items(): OK or the reason of
\* the first ValidationError
ValidateProperties(items) ==
    IF Len(items) = 0 THEN OK
    ELSE IF validate_native_property_name(items[1][1]) # OK
    THEN validate_native_property_name(items[1][1])
    ELSE IF validate_property_value(items[1][2]) # OK
    THEN validate_property_value(items[1][2])
    ELSE ValidateProperties(Tail(items))

RECURSIVE MetadataProperties(_, _)
\* the loop of create_dataset over metadata_properties.items(): the dict
\* _metadata_properties, or the reason of the first ValidationError
MetadataProperties(items, res) ==
    IF Len(items) = 0 THEN [err |-> OK, dict |-> res]
    ELSE LET k == items[1][1]
             meta_name == IF ~HasChar(k, ":") THEN _metadata_namespace \o <<":">> \o k ELSE k
         IN  IF ~HasChar(k, ":") /\ ~Truthy(_metadata_namespace)
             THEN [err |-> "has no namespace and none is set globally", dict |-> res]
             ELSE IF validate_metadata_property_name(meta_name) # OK
             THEN [err |-> validate_metadata_property_name(meta_name), dict |-> res]
             ELSE IF validate_property_value(items[1][2]) # OK
             THEN [err |-> validate_property_value(items[1][2]), dict |-> res]
             ELSE MetadataProperties(Tail(items), DictSet(res, meta_name, items[1][2]))

\* the parent check that lets every creation pass
parent_blocks_never(parent, recursive) == FALSE

\* create_dataset, the parent check of a fileset or a volume: the probe of
\* the parent said no and recursive is not set
parent_blocks(parent, recursive) == ~parent.ret.v /\ ~recursive

\* ZFS.create_dataset(name, dataset_type=, properties=, metadata_properties=,
\* sparse=, size=, recursive=).  The test for a toplevel name at line 588
\* compares the builtin `type` with the members of DatasetType and never
\* holds.  A snapshot name is split at '@' into two parts; any other number
\* of parts is a ValueError of the unpacking.
create_dataset(name, dataset_type, properties, metadata_properties, sparse, size, recursive) ==
    LET meta == IF metadata_properties.pytype = "dict"
                THEN MetadataProperties(metadata_properties.items, PyDict(<<>>))
                ELSE [err |-> OK, dict |-> PyDict(<<>>)]
        parent_ds == IF HasChar(name, "/") THEN SubSeq(name, 1, LastIndex(name, "/") - 1)
                     ELSE <<>>
        sparse_v == IF dataset_type # DatasetType_VOLUME THEN FALSE ELSE sparse
        size_v == IF dataset_type # DatasetType_VOLUME THEN PyNone ELSE size
        fileset_or_volume ==
            IF HasChar(name, "@") \/ HasChar(name, "#")
            THEN {Raise("ValidationError",
                        "Volumes/Filesets can't contain @ (snapshot) or # (bookmark)", <<>>)}
            ELSE Then(dataset_exists(parent_ds),
                      LAMBDA parent :
                          IF parent_blocks(parent, recursive)
                          THEN {Raise("DatasetNotFound",
                                      "Parent dataset does not exist and \"recursive\" is not set",
                                      <<>>)}
                          ELSE IF dataset_type = DatasetType_VOLUME
                          THEN IF ValidateVolume(properties, size_v) # OK
                               THEN {Raise("ValidationError",
                                           ValidateVolume(properties, size_v), <<>>)}
                               ELSE _create_volume(name, properties, meta.dict, sparse_v,
                                                   size_v, recursive)
                          ELSE _create_fileset(name, properties, meta.dict, recursive))
        snapshot ==
            IF ~HasChar(name, "@")
            THEN {Raise("ValidationError", "Name must include @name", <<>>)}
            ELSE IF Len(Split(name, "@")) # 2
            THEN {Raise("ValueError", "values to unpack", <<>>)}
            ELSE Then(dataset_exists(Split(name, "@")[1]),
                      LAMBDA parent :
                          IF ~parent.ret.v
                          THEN {Raise("DatasetNotFound",
                                      "The parent dataset could not be found", <<>>)}
                          ELSE _create_snapshot(name, properties, meta.dict, FALSE))
        checked ==
            IF properties.pytype = "dict" /\ ValidateProperties(properties.items) # OK
            THEN {Raise("ValidationError", ValidateProperties(properties.items), <<>>)}
            ELSE IF meta.err # OK THEN {Raise("ValidationError", meta.err, <<>>)}
            ELSE IF dataset_type \in {DatasetType_FILESET, DatasetType_VOLUME}
            THEN fileset_or_volume
            ELSE IF dataset_type = DatasetType_SNAPSHOT THEN snapshot
            ELSE {Return(PyNone, <<>>)}
    IN  IF dataset_type = DatasetType_BOOKMARK
        THEN {Raise("ValidationError", "Bookmarks can't be created using this function.", <<>>)}
        ELSE IF validate_dataset_identity(name) # OK
        THEN {Raise("ValidationError", validate_dataset_identity(name), <<>>)}
        ELSE Then(dataset_exists(name),
                  LAMBDA exists :
                      IF exists.ret.v
                      THEN {Raise("Exception", "Dataset already exists", <<>>)}
                      ELSE checked)

\* ZFS.create_fileset(name, mountpoint=, properties=, metadata_properties=,
\* recursive=)
create_fileset(name, mountpoint, properties, metadata_properties, recursive) ==
    create_dataset(name, DatasetType_FILESET,
                   IF mountpoint # None
                   THEN DictSet(IF properties.pytype = "NoneType" THEN PyDict(<<>>) ELSE properties,
                                S_mountpoint, mountpoint)
                   ELSE properties,
                   metadata_properties, FALSE, PyNone, recursive)

\* ZFS.create_volume(name, size=, sparse=, blocksize=, properties=,
\* metadata_properties=, recursive=)
create_volume(name, size, sparse, blocksize, properties, metadata_properties, recursive) ==
    create_dataset(name, DatasetType_VOLUME,
                   IF blocksize.pytype # "NoneType"
                   THEN DictSet(IF properties.pytype = "NoneType" THEN PyDict(<<>>) ELSE properties,
                                S_blocksize, IntStr(blocksize.v))
                   ELSE properties,
                   metadata_properties, sparse, size, recursive)

-----------------------------------------------------------------------------
(* Arguments the callers pass *)

\* every str over alphabet of length at most n
StringsUpTo(alphabet, n) == UNION {[1..k -> alphabet] : k \in 0..n}

NameAlphabet == {"t", "/"}

\* dataset arguments: the short strings, a snapshot, an upper-case pool, a
\* reserved disk name, a bookmark inside the path and a name that ends
\* with a newline
DatasetArgs ==
    StringsUpTo(NameAlphabet, MaxNameLen)
    \cup {<<"t","/","a","@","s">>, <<"T","/","a">>, <<"c","1","/","a">>,
          <<"t","#","b","/","a">>, <<"t","/","a","\n">>}

KeyArgs == {S_type, S_all, <<" ","a","l","l">>, <<"K">>}

ValueArgs == {<<"/","m">>, Rep("x", METADATA_PROPERTY_VALUE_LEN_MAX - 1),
              Rep("x", METADATA_PROPERTY_VALUE_LEN_MAX)}

NamespaceArgs == {None, <<"n","s">>, <<" ">>}

\* the values of overwrite_metadata_namespace
OverwriteArgs == {None, <<"o">>}

\* the names create_fileset is called with: a pool, a fileset, a fileset
\* two levels down, a snapshot and a name that is not valid
CreateNameArgs ==
    {<<"t">>, <<"t","/","a">>, <<"t","/","a","/","b">>, <<"t","/","a","@","s">>, <<"/","a">>}

\* the values of the keyword argument mountpoint
MountpointArgs == {None, <<"/","m">>}

\* the values of the keyword argument properties
PropertiesArgs ==
    {PyNone, PyDict(<< <<S_mountpoint, S_none>> >>), PyDict(<< <<<<"K">>, <<"/","m">> >> >>)}

\* the values of the keyword argument metadata_properties
MetadataPropertiesArgs == {PyNone, PyDict(<< <<<<"k">>, <<"v">> >> >>)}

\* the values of the keyword argument parent
ParentArgs ==
    {PyNone, PyStr(<<>>), PyStr(<<"t">>), PyStr(<<"/","a">>),
     Dataset(<<"a">>, <<"t","/","a">>, <<"t">>, <<"t">>, "fileset")}

\* a well-formed name of a fileset
FILESET == <<"t","/","a">>

\* the longest stderr text, in phrases, handle_command_error is given
MaxPhrases == 2

\* the phrases of a stderr text
Phrases == {D_NO_DATASET, D_BAD_PROPERTY, D_DENIED, D_ROOT_MOUNT, D_OTHER}

\* the stderr texts handle_command_error is given
DiagnosticArgs == StringsUpTo(Phrases, MaxPhrases)

\* the record of a finished call
Called(op, args, o) ==
    [op |-> op, args |-> args, exc |-> o.exc, msg |-> o.msg, ret |-> o.ret, trace |-> o.trace]

IsZFS == cls \in {"ZFS", "ZFSCli"}

\* the caller is between two calls
Idle == [op |-> "idle", args |-> <<>>, exc |-> "none", msg |-> "", ret |-> PyNone, trace |-> <<>>]

-----------------------------------------------------------------------------
(* The instance and the calls made on it *)

\* ZFS.__init__ / ZFSCli.__init__ / ZPool.__init__: use is the keyword
\* argument use_pe_helper, "absent" when it is not passed; ZPool ignores it
Init ==
    /\ cls \in {"ZFS", "ZFSCli", "ZPool"}
    /\ _metadata_namespace \in NamespaceArgs
    /\ _pe_helper \in PEHelpers \cup {None}
    /\ __exe = EXTERNAL_EXE
    /\ \E mode \in PEHelperMode, use \in {"absent", "True", "False"} :
          /\ _pe_helper_mode =
                IF cls # "ZPool" /\ use = "True" /\ mode = DO_NOT_USE
                THEN USE_IF_REQUIRED ELSE mode
          /\ call = Called("__init__", <<mode, <<use>>>>, Return(PyNone, <<>>))

\* self.metadata_namespace = namespace
SetMetadataNamespace(namespace) ==
    /\ call.op = "idle"
    /\ _metadata_namespace' = namespace
    /\ call' = Called("metadata_namespace=", <<namespace>>, Return(PyNone, <<>>))
    /\ UNCHANGED <<cls, _pe_helper, _pe_helper_mode, __exe>>

\* self.pe_helper = helper
SetPeHelper(helper) ==
    /\ call.op = "idle"
    /\ _pe_helper' = helper
    /\ call' = Called("pe_helper=", <<helper>>, Return(PyNone, <<>>))
    /\ UNCHANGED <<cls, _metadata_namespace, _pe_helper_mode, __exe>>

\* self.pe_helper_mode = mode
SetPeHelperMode(mode) ==
    /\ call.op = "idle"
    /\ _pe_helper_mode' = mode
    /\ call' = Called("pe_helper_mode=", <<mode>>, Return(PyNone, <<>>))
    /\ UNCHANGED <<cls, _metadata_namespace, _pe_helper, __exe>>

\* the mode ZFS.use_pe_helper = use stores
use_pe_helper_setter(use) ==
    IF use
    THEN IF pe_helper_mode = DO_NOT_USE THEN USE_PROACTIVE ELSE _pe_helper_mode
    ELSE DO_NOT_USE

\* self.use_pe_helper = use
SetUsePeHelper(use) ==
    /\ call.op = "idle"
    /\ IsZFS
    /\ _pe_helper_mode' = use_pe_helper_setter(use)
    /\ call' = Called("use_pe_helper=", <<Flag(use)>>, Return(PyNone, <<>>))
    /\ UNCHANGED <<cls, _metadata_namespace, _pe_helper, __exe>>

\* reading self.pe_helper_mode
GetPeHelperMode ==
    /\ call.op = "idle"
    /\ call' = Called("pe_helper_mode", <<>>, Return(PyEnum(pe_helper_mode), <<>>))
    /\ UNCHANGED <<cls, _metadata_namespace, _pe_helper, _pe_helper_mode, __exe>>

\* reading self.use_pe_helper
GetUsePeHelper ==
    /\ call.op = "idle"
    /\ IsZFS
    /\ call' = Called("use_pe_helper", <<>>, Return(PyBool(use_pe_helper), <<>>))
    /\ UNCHANGED <<cls, _metadata_namespace, _pe_helper, _pe_helper_mode, __exe>>

\* the caller has looked at the outcome of the last call and goes on
Continue ==
    /\ call.op # "idle"
    /\ call' = Idle
    /\ UNCHANGED <<cls, _metadata_namespace, _pe_helper, _pe_helper_mode, __exe>>

\* an int or None as the string the call records
IntRepr(x) == IF x.pytype = "int" THEN IntStr(x.v) ELSE None

\* a dict whose only item is a blocksize
BlocksizeDict(value) == PyDict(<< <<S_blocksize, value>> >>)

\* the blocksize properties create_volume is called with: no integer, below
\* and above the range, inside the range but no power of two, the two ends
\* of the range and a number int() accepts with blanks and an underscore
BlocksizePropertiesArgs ==
    {PyNone,
     BlocksizeDict(<<"x">>), BlocksizeDict(<<"1">>), BlocksizeDict(<<"1","0","0">>),
     BlocksizeDict(<<"2">>), BlocksizeDict(<<"1","3","1","0","7","2">>),
     BlocksizeDict(<<"2","6","2","1","4","4">>), BlocksizeDict(<<" ","6","_","4">>)}

\* the sizes create_volume is called with
SizeArgs == {PyNone, PyInt(0), PyInt(0 - 1), PyInt(1), PyInt(1024)}

\* the values of the blocksize argument of create_volume
BlocksizeArgs == {PyNone, PyInt(100), PyInt(512)}

\* the arguments of the create_volume calls: every size with no blocksize,
\* and every blocksize, as property or as argument, with a valid size
VolumeArgs ==
    {[size |-> size, blocksize |-> PyNone, properties |-> PyNone] : size \in SizeArgs}
    \cup {[size |-> PyInt(1024), blocksize |-> PyNone, properties |-> properties]
            : properties \in BlocksizePropertiesArgs}
    \cup {[size |-> PyInt(1024), blocksize |-> blocksize, properties |-> BlocksizeDict(<<"x">>)]
            : blocksize \in BlocksizeArgs}
    \cup {[size |-> PyInt(0), blocksize |-> PyNone, properties |-> BlocksizeDict(<<"1","0","0">>)]}

\* the names create_dataset is called with: a pool, a fileset or volume
\* below it, and a snapshot
DatasetNameArgs == {<<"t">>, <<"t","/","a">>, <<"t","/","a","@","s">>}

\* the paths Dataset.from_string is called with: the short strings and
\* paths of three segments, with a snapshot and with a bookmark
PathArgs ==
    DatasetArgs \cup {<<"t","/","a","/","b">>, <<"t","/","a","/","b","@","s">>,
                      <<"p","o","/","a","#","b">>, <<"t","@","s">>}

\* the pool names validate_pool_name is called with: the reserved words,
\* beginnings of them and other names, each followed by up to two characters
PoolStems ==
    {<<"m","i","r","r","o","r">>, <<"r","a","i","d","z">>, <<"s","p","a","r","e">>,
     <<"l","o","g">>, <<"l","o">>, <<"c">>, <<"t">>, <<"M">>, <<>>}

PoolTails == StringsUpTo({"g", "9", "@"}, 2) \cup {<<"g","e","r">>, <<"\n">>}

PoolNameArgs == {stem \o tail : stem \in PoolStems, tail \in PoolTails}

\* the values validate_property_value is called with: around the limit in
\* ASCII, and with one character of two, three and four bytes
LongValueArgs ==
    {<<>>, <<"/","m">>}
    \cup {Rep("x", METADATA_PROPERTY_VALUE_LEN_MAX + d) : d \in {0 - 2, 0 - 1, 0, 1}}
    \cup {Rep("x", METADATA_PROPERTY_VALUE_LEN_MAX - 1 - Utf8Width(c) + d) \o <<c>>
            : c \in {U_E_ACUTE, U_EURO, U_GRINNING}, d \in {0, 1}}

\* a volume below a pool
VOLUME == <<"t","/","v">>

\* a call of a method that leaves the instance as it is and ends in one of outcomes
Method(op, args, outcomes) ==
    /\ call.op = "idle"
    /\ IsZFS
    /\ \E o \in outcomes : call' = Called(op, args, o)
    /\ UNCHANGED <<cls, _metadata_namespace, _pe_helper, _pe_helper_mode, __exe>>

GetProperty(dataset, key, metadata, ns) ==
    Method("get_property", <<dataset, key, Flag(metadata), ns>>, get_property(dataset, key, metadata, ns))

SetProperty(dataset, key, value, metadata, ns) ==
    Method("set_property", <<dataset, key, value, Flag(metadata), ns>>,
           set_property(dataset, key, value, metadata, ns))

GetProperties(dataset, include_metadata) ==
    Method("get_properties", <<dataset, Flag(include_metadata)>>,
           get_properties(dataset, include_metadata))

DatasetExists(name) ==
    Method("dataset_exists", <<name>>, dataset_exists(name))

\* set_mountpoint that keeps the mode it was given as the mode of the instance
SetMountpoint_storing(fileset, mountpoint, mode) ==
    /\ call.op = "idle"
    /\ IsZFS
    /\ \E o \in set_mountpoint(fileset, mountpoint, mode) :
          call' = Called("set_mountpoint", <<fileset, mountpoint, mode>>, o)
    /\ _pe_helper_mode' = IF mode # None THEN mode ELSE _pe_helper_mode
    /\ UNCHANGED <<cls, _metadata_namespace, _pe_helper, __exe>>

SetMountpoint(fileset, mountpoint, mode) ==
    Method("set_mountpoint", <<fileset, mountpoint, mode>>,
           set_mountpoint(fileset, mountpoint, mode))

DestroyDataset(dataset, recursive, force_umount) ==
    Method("destroy_dataset", <<dataset, Flag(recursive), Flag(force_umount)>>,
           destroy_dataset(dataset, recursive, force_umount))

CreateFileset(name, mountpoint, properties, metadata_properties, recursive) ==
    Method("create_fileset",
           <<name, mountpoint, DictRepr(properties), DictRepr(metadata_properties), Flag(recursive)>>,
           create_fileset(name, mountpoint, properties, metadata_properties, recursive))

CreateVolume(name, size, sparse, blocksize, properties, metadata_properties, recursive) ==
    Method("create_volume",
           <<name, IntRepr(size), Flag(sparse), IntRepr(blocksize), DictRepr(properties),
             DictRepr(metadata_properties), Flag(recursive)>>,
           create_volume(name, size, sparse, blocksize, properties, metadata_properties,
                         recursive))

CreateDataset(name, dataset_type, properties, metadata_properties, sparse, size, recursive) ==
    Method("create_dataset",
           <<name, dataset_type, DictRepr(properties), DictRepr(metadata_properties),
             Flag(sparse), IntRepr(size), Flag(recursive)>>,
           create_dataset(name, dataset_type, properties, metadata_properties, sparse, size,
                          recursive))

\* the outcome of a validator: it returns None or raises ValidationError
Validated(reason) ==
    IF reason = OK THEN Return(PyNone, <<>>) ELSE Raise("ValidationError", reason, <<>>)

\* Dataset.from_string(value), a static method, with /dev/zvol/<value>
\* present or not
DatasetFromString(value) ==
    /\ call.op = "idle"
    /\ \E is_zvol \in BOOLEAN :
          call' = Called("Dataset.from_string", <<value>>, Dataset_from_string(value, is_zvol))
    /\ UNCHANGED <<cls, _metadata_namespace, _pe_helper, _pe_helper_mode, __exe>>

\* validate_pool_name(name), a function of the module validation
ValidatePoolName(name) ==
    /\ call.op = "idle"
    /\ call' = Called("validate_pool_name", <<name>>, Validated(validate_pool_name(name)))
    /\ UNCHANGED <<cls, _metadata_namespace, _pe_helper, _pe_helper_mode, __exe>>

\* validate_property_value(value), a function of the module validation
ValidatePropertyValue(value) ==
    /\ call.op = "idle"
    /\ call' = Called("validate_property_value", <<value>>,
                      Validated(validate_property_value(value)))
    /\ UNCHANGED <<cls, _metadata_namespace, _pe_helper, _pe_helper_mode, __exe>>

ListDatasets(parent) ==
    Method("list_datasets",
           <<IF parent.pytype = "Dataset" THEN parent.full_path
             ELSE IF parent.pytype = "str" THEN parent.s ELSE None>>,
           list_datasets(parent))

\* an exception that was raised with the stderr text it carries
Raised(exc, text) == [kind |-> "raised", exc |-> exc, text |-> text]

\* self.handle_command_error(proc) for a process that wrote err to stderr
HandleCommandError(err) ==
    /\ cls = "ZFSCli"
    /\ call.op = "idle"
    /\ call' = Called("handle_command_error", <<err>>,
                      Raise(handle_command_error(err).exc, handle_command_error(err).msg,
                            <<Raised(handle_command_error(err).exc,
                                     handle_command_error(err).text)>>))
    /\ UNCHANGED <<cls, _metadata_namespace, _pe_helper, _pe_helper_mode, __exe>>

\* pe_helper.executable = new_exe on the configured ExternalPEHelper
SetExecutable(new_exe) ==
    /\ call.op = "idle"
    /\ _pe_helper = ExternalPEHelper
    /\ __exe' = ExternalPEHelper_executable_setter(new_exe).exe
    /\ call' = Called("executable=", <<new_exe>>,
                      IF ExternalPEHelper_executable_setter(new_exe).exc = "none"
                      THEN Return(PyNone, <<>>)
                      ELSE Raise(ExternalPEHelper_executable_setter(new_exe).exc,
                                 ExternalPEHelper_executable_setter(new_exe).msg, <<>>))
    /\ UNCHANGED <<cls, _metadata_namespace, _pe_helper, _pe_helper_mode>>

\* pe_helper.executable read on the configured ExternalPEHelper
GetExecutable ==
    /\ call.op = "idle"
    /\ _pe_helper = ExternalPEHelper
    /\ call' = Called("executable", <<>>, Return(PyStr(__exe), <<>>))
    /\ UNCHANGED <<cls, _metadata_namespace, _pe_helper, _pe_helper_mode, __exe>>

\* SudoPEHelper._execute_cmd(cmd) on the configured helper
ExecuteCmd(cmd) ==
    /\ call.op = "idle"
    /\ _pe_helper = SudoPEHelper
    /\ \E ans \in HelperAnswers :
          call' = Called("_execute_cmd", cmd, SudoPEHelper_execute_cmd(cmd, ans))
    /\ UNCHANGED <<cls, _metadata_namespace, _pe_helper, _pe_helper_mode, __exe>>

\* pe_helper.zfs_mount(fileset) on the configured helper
HelperMount(fileset) ==
    /\ call.op = "idle"
    /\ _pe_helper # None
    /\ \E ans \in HelperAnswers :
          call' = Called("zfs_mount", <<fileset>>, PEHelper_zfs_mount(_pe_helper, fileset, ans))
    /\ UNCHANGED <<cls, _metadata_namespace, _pe_helper, _pe_helper_mode, __exe>>

\* pe_helper.zfs_set_mountpoint(fileset, mountpoint) on the configured helper
HelperSetMountpoint(fileset, mountpoint) ==
    /\ call.op = "idle"
    /\ _pe_helper # None
    /\ \E ans \in HelperAnswers :
          call' = Called("zfs_set_mountpoint", <<fileset, mountpoint>>,
                         PEHelper_zfs_set_mountpoint(_pe_helper, fileset, mountpoint, ans))
    /\ UNCHANGED <<cls, _metadata_namespace, _pe_helper, _pe_helper_mode, __exe>>

\* pe_helper.zfs_destroy_dataset(dataset, recursive, force_umount) on the
\* configured helper
HelperDestroyDataset(dataset, recursive, force_umount) ==
    /\ call.op = "idle"
    /\ _pe_helper # None
    /\ \E ans \in HelperAnswers :
          call' = Called("zfs_destroy_dataset", <<dataset, Flag(recursive), Flag(force_umount)>>,
                         PEHelper_zfs_destroy_dataset(_pe_helper, dataset, recursive,
                                                      force_umount, ans))
    /\ UNCHANGED <<cls, _metadata_namespace, _pe_helper, _pe_helper_mode, __exe>>

\* the setters and getters of the configuration
Configure ==
    \/ \E namespace \in NamespaceArgs : SetMetadataNamespace(namespace)
    \/ \E helper \in PEHelpers \cup {None} : SetPeHelper(helper)
    \/ \E mode \in PEHelperMode : SetPeHelperMode(mode)
    \/ \E use \in BOOLEAN : SetUsePeHelper(use)
    \/ GetPeHelperMode
    \/ GetUsePeHelper
    \/ Continue

\* the property methods
PropertyCalls ==
    \/ \E dataset \in DatasetArgs, key \in KeyArgs, metadata \in BOOLEAN,
          ns \in OverwriteArgs : GetProperty(dataset, key, metadata, ns)
    \/ \E dataset \in DatasetArgs, key \in KeyArgs, value \in ValueArgs, metadata \in BOOLEAN,
          ns \in OverwriteArgs : SetProperty(dataset, key, value, metadata, ns)
    \/ \E dataset \in DatasetArgs, include_metadata \in BOOLEAN :
          GetProperties(dataset, include_metadata)
    \/ \E name \in DatasetArgs : DatasetExists(name)

\* set_mountpoint
MountpointCalls ==
    \E fileset \in DatasetArgs, mountpoint \in ValueArgs, mode \in PEHelperMode \cup {None} :
        SetMountpoint(fileset, mountpoint, mode)

\* destroy_dataset
DestroyCalls ==
    \E dataset \in DatasetArgs, recursive \in BOOLEAN, force_umount \in BOOLEAN :
        DestroyDataset(dataset, recursive, force_umount)

\* create_fileset
CreateCalls ==
    \E name \in CreateNameArgs, mountpoint \in MountpointArgs, properties \in PropertiesArgs,
       metadata_properties \in MetadataPropertiesArgs, recursive \in BOOLEAN :
        CreateFileset(name, mountpoint, properties, metadata_properties, recursive)

\* create_volume
VolumeCalls ==
    \E a \in VolumeArgs, sparse \in BOOLEAN, recursive \in BOOLEAN :
        CreateVolume(VOLUME, a.size, sparse, a.blocksize, a.properties, PyNone, recursive)

\* create_dataset
DatasetCalls ==
    \E name \in DatasetNameArgs, dataset_type \in DatasetType, size \in {PyNone, PyInt(1024)},
       recursive \in BOOLEAN :
        CreateDataset(name, dataset_type, PyNone, PyNone, FALSE, size, recursive)

\* Dataset.from_string and the validators
FunctionCalls ==
    \/ \E value \in PathArgs : DatasetFromString(value)
    \/ \E name \in PoolNameArgs : ValidatePoolName(name)
    \/ \E value \in LongValueArgs : ValidatePropertyValue(value)

\* the three methods that can hand work to the PE helper
EscalationCalls ==
    \/ \E mode \in PEHelperMode \cup {None} : SetMountpoint(FILESET, <<"/","m">>, mode)
    \/ \E recursive \in BOOLEAN, force_umount \in BOOLEAN :
          DestroyDataset(FILESET, recursive, force_umount)
    \/ \E mountpoint \in MountpointArgs, recursive \in BOOLEAN :
          CreateFileset(FILESET, mountpoint, PyNone, PyNone, recursive)

\* the command vectors _execute_cmd is given by a caller of its own
CommandArgs == {<<>>, <<S_zfs>>, <<S_zfs, S_mount>>, <<S_zfs, S_mount, FILESET>>}

\* the methods of the configured helper, called by a caller of its own
HelperMethodCalls ==
    \/ \E cmd \in CommandArgs : ExecuteCmd(cmd)
    \/ \E fileset \in DatasetArgs : HelperMount(fileset)
    \/ \E fileset \in DatasetArgs : HelperSetMountpoint(fileset, <<"/","m">>)
    \/ \E dataset \in DatasetArgs, recursive \in BOOLEAN, force_umount \in BOOLEAN :
          HelperDestroyDataset(dataset, recursive, force_umount)

\* the methods that take a per-call override of the configuration, and the
\* other methods of the front end, on a well-formed fileset
FrameCalls ==
    \/ \E mode \in PEHelperMode \cup {None} : SetMountpoint(FILESET, <<"/","m">>, mode)
    \/ \E metadata \in BOOLEAN, ns \in OverwriteArgs :
          GetProperty(FILESET, <<"k">>, metadata, ns)
    \/ \E metadata \in BOOLEAN, ns \in OverwriteArgs :
          SetProperty(FILESET, <<"k">>, <<"v">>, metadata, ns)
    \/ \E include_metadata \in BOOLEAN : GetProperties(FILESET, include_metadata)
    \/ DatasetExists(FILESET)
    \/ \E recursive \in BOOLEAN : DestroyDataset(FILESET, recursive, FALSE)
    \/ \E mountpoint \in MountpointArgs : CreateFileset(FILESET, mountpoint, PyNone, PyNone, FALSE)

\* the paths assigned to ExternalPEHelper.executable
ExecutableArgs ==
    {EXTERNAL_EXE, EXECUTABLE_2, <<" ">> \o EXECUTABLE_2 \o <<"\n">>, PLAIN_FILE, DIRECTORY,
     SYMLINK, MISSING, <<>>}

\* the executable of an ExternalPEHelper, assigned, read and used
ExecutableCalls ==
    \/ \E new_exe \in ExecutableArgs : SetExecutable(new_exe)
    \/ GetExecutable
    \/ \E fileset \in {FILESET, <<"t">>} : HelperSetMountpoint(fileset, <<"/","m">>)

\* handle_command_error
ClassifyCalls == \E err \in DiagnosticArgs : HandleCommandError(err)

\* list_datasets
ListCalls == \E parent \in ParentArgs : ListDatasets(parent)

\* every method that runs a command, called on a well-formed fileset
InvokeCalls ==
    \/ GetProperty(FILESET, S_type, FALSE, None)
    \/ SetProperty(FILESET, S_mountpoint, <<"/","m">>, FALSE, None)
    \/ GetProperties(FILESET, TRUE)
    \/ \E recursive \in BOOLEAN : DestroyDataset(FILESET, recursive, FALSE)
    \/ CreateFileset(FILESET, <<"/","m">>, PyNone, PyNone, TRUE)

Next ==
    \/ Configure
    \/ PropertyCalls
    \/ MountpointCalls
    \/ DestroyCalls
    \/ CreateCalls
    \/ VolumeCalls
    \/ DatasetCalls
    \/ FunctionCalls
    \/ ClassifyCalls
    \/ ListCalls
    \/ InvokeCalls
    \/ EscalationCalls
    \/ HelperMethodCalls
    \/ FrameCalls
    \/ ExecutableCalls

\* every call on an instance
Spec == Init /\ [][Next]_vars

\* an instance that is configured and read
SpecConfigure == Init /\ [][Configure]_vars

\* an instance on which the property methods are called
SpecProperty == Init /\ [][Configure \/ PropertyCalls]_vars

\* an instance on which set_mountpoint is called
SpecMountpoint == Init /\ [][Configure \/ MountpointCalls]_vars

\* an instance on which destroy_dataset is called
SpecDestroy == Init /\ [][Configure \/ DestroyCalls]_vars

\* a ZFSCli whose handle_command_error is called
SpecClassify == Init /\ [][Configure \/ ClassifyCalls]_vars

\* an instance on which each method that runs a command is called
SpecInvoke == Init /\ [][Configure \/ ListCalls \/ InvokeCalls]_vars

\* an instance on which create_fileset is called
SpecCreate == Init /\ [][Configure \/ CreateCalls]_vars

\* an instance, configured by its constructor, on which create_dataset is called
SpecDataset == Init /\ [][Continue \/ DatasetCalls]_vars

\* the functions that need no instance
SpecFunction == Init /\ [][Continue \/ FunctionCalls]_vars

\* an instance, configured by its constructor, on which create_volume is called
SpecVolume == Init /\ [][Continue \/ VolumeCalls]_vars

\* an instance, configured by its constructor, on which the methods that can
\* call the PE helper are called
SpecEscalation == Init /\ [][Continue \/ EscalationCalls]_vars

\* a helper, configured on an instance, whose methods are called
SpecHelper == Init /\ [][Continue \/ HelperMethodCalls]_vars

\* an instance whose configuration is set and whose methods are called
SpecFrame == Init /\ [][Configure \/ FrameCalls]_vars

\* an ExternalPEHelper whose executable is assigned
SpecExecutable == Init /\ [][Continue \/ ExecutableCalls]_vars

-----------------------------------------------------------------------------
(* Properties *)

\* the calls of backend method fn in the trace of the last call
BackendCalls(fn) == SelectSeq(call.trace, LAMBDA e : e.kind = "backend" /\ e.fn = fn)

\* the calls of helper methods in the trace of the last call
HelperCalls == OfKind(call.trace, "helper")

\* C1: whenever pe_helper_mode is read on a ZFS or ZPool instance that has
\* no helper, the value read is DO_NOT_USE, whatever mode is stored.
C1_HelperGatesMode ==
    (call.op = "pe_helper_mode" /\ _pe_helper = None) => call.ret = PyEnum(DO_NOT_USE)

\* a ZPool without helper whose stored mode is USE_PROACTIVE has been read
C1_Witness ==
    /\ call.op = "pe_helper_mode"
    /\ cls = "ZPool"
    /\ _pe_helper = None
    /\ _pe_helper_mode = USE_PROACTIVE

\* the last call was a property method whose dataset, resolved property
\* name or value does not validate, or which has no namespace to resolve with
InvalidPropertyCall ==
    LET a == call.args
        name_fails(key, metadata, ns) ==
            IF metadata
            THEN \/ ResolveMetadataName(key, ns) = None
                 \/ validate_metadata_property_name(ResolveMetadataName(key, ns)) # OK
            ELSE validate_native_property_name(key) # OK
    IN  CASE call.op = "get_properties" -> validate_dataset_identity(a[1]) # OK
          [] call.op = "get_property" ->
                 validate_dataset_identity(a[1]) # OK \/ name_fails(a[2], IsSet(a[3]), a[4])
          [] call.op = "set_property" ->
                 \/ validate_dataset_identity(a[1]) # OK
                 \/ name_fails(a[2], IsSet(a[4]), a[5])
                 \/ validate_property_value(a[3]) # OK
          [] OTHER -> FALSE

\* C7: a get_property, set_property or get_properties call whose dataset,
\* resolved property name or value fails validation, or that has no metadata
\* namespace available, fails with ValidationError and never reaches the
\* backend implementation.
C7_ValidateBeforeBackend ==
    InvalidPropertyCall => call.exc = "ValidationError" /\ call.trace = <<>>

\* get_properties was called with a dataset that does not validate
C7_Witness ==
    /\ call.op = "get_properties"
    /\ call.args[1] = <<"T","/","a">>
    /\ InvalidPropertyCall
    /\ call.exc = "ValidationError"

\* C8: destroy_dataset with a name without '/' fails with ValidationError
\* and makes no backend or helper invocation.
C8_DestroyGuard ==
    (call.op = "destroy_dataset" /\ ~HasChar(call.args[1], "/"))
        => call.exc = "ValidationError" /\ call.trace = <<>>

\* destroy_dataset was called with a well-formed pool name and refused
C8_Witness ==
    /\ call.op = "destroy_dataset"
    /\ call.args[1] = <<"t">>
    /\ validate_pool_name(call.args[1]) = OK
    /\ call.exc = "ValidationError"

\* the existence probe of the last call found that the dataset does not exist
ProbedAbsent ==
    /\ Len(BackendCalls("_get_property")) >= 1
    /\ BackendCalls("_get_property")[1].args[2] = S_type
    /\ BackendCalls("_get_property")[1].exc = "DatasetNotFound"

\* the last call ran a zfs destroy command
DestroyCommands ==
    SelectSeq(call.trace, LAMBDA e : e.kind = "proc" /\ e.argv[2] = S_destroy)

\* C9: destroy_dataset on a valid path whose dataset does not exist fails
\* with DatasetNotFound; neither the backend destroy nor a helper is invoked.
C9_DestroyAbsent ==
    (call.op = "destroy_dataset" /\ validate_dataset_path(call.args[1]) = OK /\ ProbedAbsent)
        => /\ call.exc = "DatasetNotFound"
           /\ BackendCalls("_destroy_dataset") = <<>>
           /\ DestroyCommands = <<>>
           /\ HelperCalls = <<>>

\* the zfs executable reported that the dataset of a destroy call does not exist
C9_Witness ==
    /\ call.op = "destroy_dataset"
    /\ cls = "ZFSCli"
    /\ ProbedAbsent
    /\ \E i \in 1..Len(call.trace) :
          call.trace[i].kind = "proc" /\ Contains(call.trace[i].err, D_NO_DATASET)
    /\ call.exc = "DatasetNotFound"

\* the message of the ValidationError set_mountpoint raises at its type check
NOT_A_FILESYSTEM == "Dataset is not a filesystem and can't have its mountpoint set"

\* the type probe of the last call, when it made one
TypeProbe == BackendCalls("_get_property")[1]

\* the last call was a set_mountpoint whose type probe returned the Property
\* of a filesystem
ProbedFilesystem ==
    /\ call.op = "set_mountpoint"
    /\ Len(BackendCalls("_get_property")) >= 1
    /\ TypeProbe.exc = "none"
    /\ TypeProbe.ret.value = S_filesystem

\* the mode a set_mountpoint call works with: its argument, else the instance's
RealMode == IF call.args[3] # None THEN call.args[3] ELSE pe_helper_mode

\* the unprivileged attempts of the last call
SetAttempts == BackendCalls("_set_property")

\* the helper's zfs_set_mountpoint calls of the last call
MountpointHelperCalls == SelectSeq(HelperCalls, LAMBDA e : e.cap = "zfs_set_mountpoint")

\* a stderr text that handle_command_error's rules classify as 'permission denied'
ClassifiedDenied(err) ==
    Contains(err, D_DENIED) /\ ~Contains(err, D_NO_DATASET) /\ ~Contains(err, D_BAD_PROPERTY)

\* C2: on a filesystem, with a helper and the mode USE_IF_REQUIRED,
\* set_mountpoint makes the unprivileged attempt and, when that raises
\* PermissionError, calls the helper's zfs_set_mountpoint exactly once with
\* the fileset and the mountpoint it was given, and returns normally unless
\* the helper itself fails.
C2_PermissionFallback ==
    (ProbedFilesystem /\ _pe_helper # None /\ RealMode = USE_IF_REQUIRED)
        => /\ Len(SetAttempts) = 1
           /\ SetAttempts[1].exc = "PermissionError"
                => /\ HelperCalls =
                          <<HelperCall("zfs_set_mountpoint", <<call.args[1], call.args[2]>>)>>
                   /\ call.exc \in {"none", "PEHelperException", "ExternalPEHelperException"}

\* C3: on a filesystem, with a helper and the mode USE_PROACTIVE,
\* set_mountpoint calls the helper's zfs_set_mountpoint and makes no
\* unprivileged attempt.
C3_Proactive ==
    (ProbedFilesystem /\ _pe_helper # None /\ RealMode = USE_PROACTIVE)
        => Len(MountpointHelperCalls) >= 1 /\ SetAttempts = <<>>

\* C4: on a filesystem, with the mode DO_NOT_USE or without a helper,
\* set_mountpoint makes the unprivileged attempt and, when that raises
\* PermissionError, ends by raising it and calls no helper.
C4_NoEscalation ==
    (ProbedFilesystem /\ (RealMode = DO_NOT_USE \/ _pe_helper = None))
        => /\ Len(SetAttempts) = 1
           /\ SetAttempts[1].exc = "PermissionError"
                => call.exc = "PermissionError" /\ HelperCalls = <<>>

\* C5: once the type probe has returned, set_mountpoint fails with the
\* ValidationError of its type check, before any attempt or helper call,
\* exactly when the value of the type property is not "filesystem"; for a
\* filesystem it goes on to the attempt or to the helper.
C5_TypeGate ==
    (call.op = "set_mountpoint" /\ Len(BackendCalls("_get_property")) >= 1
     /\ TypeProbe.exc = "none")
        => LET gate == /\ call.exc = "ValidationError"
                       /\ call.msg = NOT_A_FILESYSTEM
                       /\ SetAttempts = <<>>
                       /\ HelperCalls = <<>>
           IN  /\ gate <=> TypeProbe.ret.value # S_filesystem
               /\ TypeProbe.ret.value = S_filesystem
                    => SetAttempts # <<>> \/ HelperCalls # <<>>

\* C6: with the command executor, a backend call that fails on a
\* 'permission denied' diagnostic ends with the permission error the front end
\* intercepts (simplezfs.exceptions.PermissionError), so that a denied
\* `zfs set mountpoint=...` under USE_IF_REQUIRED with a helper leads to the
\* helper's zfs_set_mountpoint.
C6_InterceptedKind ==
    (cls = "ZFSCli" /\ call.op = "set_mountpoint")
        => /\ \A i \in 1..(Len(call.trace) - 1) :
                (/\ call.trace[i].kind = "backend"
                 /\ call.trace[i + 1].kind = "proc"
                 /\ ClassifiedDenied(call.trace[i + 1].err))
                    => call.trace[i].exc = "PermissionError"
           /\ (/\ _pe_helper # None
               /\ RealMode = USE_IF_REQUIRED
               /\ \E i \in 1..Len(call.trace) :
                     /\ call.trace[i].kind = "proc"
                     /\ call.trace[i].argv[2] = S_set
                     /\ ClassifiedDenied(call.trace[i].err))
                  => MountpointHelperCalls # <<>>

\* C10: dataset_exists returns False when its type probe ends in
\* DatasetNotFound, a permission failure or PoolNotFound, returns True when it
\* ends in PropertyNotFound or succeeds, and with the command executor a
\* 'permission denied' diagnostic yields False and no raised error.
C10_ExistsMapping ==
    (call.op = "dataset_exists" /\ Len(BackendCalls("_get_property")) = 1)
        => /\ TypeProbe.exc \in {"DatasetNotFound", "PermissionError", "PoolNotFound"}
                => call.exc = "none" /\ call.ret = PyBool(FALSE)
           /\ TypeProbe.exc \in {"PropertyNotFound", "none"}
                => call.exc = "none" /\ call.ret = PyBool(TRUE)
           /\ (cls = "ZFSCli" /\ \E i \in 1..Len(call.trace) :
                    call.trace[i].kind = "proc" /\ ClassifiedDenied(call.trace[i].err))
                => call.exc = "none" /\ call.ret = PyBool(FALSE)

\* the kinds of permission failure a backend method can report: the
\* library's PermissionError and the builtin one
PermissionKinds == {"PermissionError", "builtins.PermissionError"}

\* the last call was one of the plain property methods
PropertyMethodCall == call.op \in {"get_property", "set_property", "get_properties"}

\* C11: set_property, get_property and get_properties never invoke a helper
\* capability, whatever helper and mode are configured, and a permission
\* failure of the backend method is the error the call ends with.
C11_NoAutoEscalation ==
    PropertyMethodCall
        => /\ HelperCalls = <<>>
           /\ Len(OfKind(call.trace, "backend")) <= 1
           /\ \A i \in 1..Len(call.trace) :
                 (call.trace[i].kind = "backend" /\ call.trace[i].exc \in PermissionKinds)
                     => call.exc = call.trace[i].exc

\* set_property met a permission failure on an instance whose helper is set
\* and whose mode is USE_PROACTIVE
C11_Witness ==
    /\ call.op = "set_property"
    /\ _pe_helper = SudoPEHelper
    /\ _pe_helper_mode = USE_PROACTIVE
    /\ Len(call.trace) >= 1
    /\ call.trace[1].kind = "backend"
    /\ call.trace[1].exc \in PermissionKinds
    /\ call.exc = call.trace[1].exc

\* the helper-driven unmounts the last call made after a failed destroy command
RetryUmounts ==
    {i \in 2..Len(call.trace) :
        /\ call.trace[i].kind = "helper"
        /\ call.trace[i].cap = "zfs_umount"
        /\ call.trace[i - 1].kind = "proc"
        /\ call.trace[i - 1].argv[2] = S_destroy}

\* C12: a destroy_dataset call ends after a bounded number of backend and
\* helper invocations: the helper-driven unmount followed by a re-attempted
\* destroy happens at most once, so the call issues at most two destroy
\* commands, even when every destroy command reports the unmount failure.
C12_BoundedRetry ==
    call.op = "destroy_dataset"
        => /\ Cardinality(RetryUmounts) <= 1
           /\ Len(DestroyCommands) <= 2
           /\ Len(BackendCalls("_destroy_dataset")) <= 2
           /\ call.exc # "RecursionError"

\* the destroy commands of the last call that the zfs executable refused for
\* lack of permission: 'cannot destroy' with 'permission denied', or 'only
\* root can'
DeniedDestroys ==
    SelectSeq(DestroyCommands,
              LAMBDA e : /\ ~Contains(e.err, D_HAS_CHILDREN)
                         /\ \/ Contains(e.err, D_CANNOT_DESTROY) /\ Contains(e.err, D_DENIED)
                            \/ Contains(e.err, D_ONLY_ROOT))

\* the calls of the helper's zfs_destroy_dataset in the last call
DestroyHelperCalls == SelectSeq(HelperCalls, LAMBDA e : e.cap = "zfs_destroy_dataset")

\* C13: when the destroy command fails with 'cannot destroy' and 'permission
\* denied', or with 'only root can', then with an effective mode other than
\* DO_NOT_USE the helper's zfs_destroy_dataset is called exactly once, with
\* the dataset, recursive and force_umount of the call; with DO_NOT_USE the
\* call fails with a permission error and no helper capability is invoked.
C13_DestroyFallback ==
    (call.op = "destroy_dataset" /\ DeniedDestroys # <<>>)
        => IF pe_helper_mode # DO_NOT_USE
           THEN /\ Len(DestroyHelperCalls) = 1
                /\ DestroyHelperCalls[1].args = call.args
           ELSE /\ call.exc \in PermissionKinds
                /\ HelperCalls = <<>>

\* a recursive destroy was denied and handed to the helper, which ran it
C13_Witness ==
    /\ call.op = "destroy_dataset"
    /\ _pe_helper = SudoPEHelper
    /\ pe_helper_mode = USE_IF_REQUIRED
    /\ call.args[2] = Flag(TRUE)
    /\ Len(DeniedDestroys) = 1
    /\ Contains(DeniedDestroys[1].err, D_ONLY_ROOT)
    /\ Len(DestroyHelperCalls) = 1
    /\ call.exc = "none"

\* the zfs create commands of the last call that answered 'filesystem
\* successfully created, but it may only be mounted by root'
RootMountCreates ==
    SelectSeq(call.trace, LAMBDA e : /\ e.kind = "proc"
                                     /\ e.argv[2] = S_create
                                     /\ Contains(e.err, D_ROOT_MOUNT))

\* the mountpoint=<value> options the create command was given
MountpointOptions ==
    {a \in {RootMountCreates[1].argv[i] : i \in 1..Len(RootMountCreates[1].argv)} :
        StartsWith(a, S_mountpoint \o <<"=">>)}

\* the mountpoint the caller asked for
RequestedMountpoint ==
    LET a == CHOOSE o \in MountpointOptions : TRUE
    IN  SubSeq(a, Len(S_mountpoint) + 2, Len(a))

\* the probes of property key in the last call that returned a value
Probes(key) ==
    SelectSeq(BackendCalls("_get_property"), LAMBDA e : e.args[2] = key /\ e.exc = "none")

\* the calls of the helper's zfs_mount in the last call
MountHelperCalls == SelectSeq(HelperCalls, LAMBDA e : e.cap = "zfs_mount")

\* C14: when the create command reports that the fileset was created but may
\* only be mounted by root, the mode permits the helper, a helper is set and
\* a mountpoint was supplied, then zfs_set_mountpoint is called if and only
\* if the probed mountpoint differs from the requested one, zfs_mount is
\* called if and only if the probed mounted is not 'yes', and each is called
\* at most once.
C14_IdempotentCreateFallback ==
    (/\ call.op = "create_fileset"
     /\ RootMountCreates # <<>>
     /\ pe_helper_mode # DO_NOT_USE
     /\ _pe_helper # None
     /\ MountpointOptions # {})
        => /\ Len(MountpointHelperCalls) <= 1
           /\ Len(MountHelperCalls) <= 1
           /\ Len(HelperCalls) = Len(MountpointHelperCalls) + Len(MountHelperCalls)
           /\ Len(Probes(S_mountpoint)) <= 1
           /\ Len(Probes(S_mounted)) <= 1
           /\ Len(MountpointHelperCalls) = 1
                 <=> /\ Len(Probes(S_mountpoint)) = 1
                     /\ Probes(S_mountpoint)[1].ret.value # RequestedMountpoint
           /\ Len(MountHelperCalls) = 1
                 <=> /\ Len(Probes(S_mounted)) = 1
                     /\ Probes(S_mounted)[1].ret.value # S_yes
           /\ \A i \in 1..Len(MountpointHelperCalls) :
                 MountpointHelperCalls[i].args = <<call.args[1], RequestedMountpoint>>
           /\ \A i \in 1..Len(MountHelperCalls) : MountHelperCalls[i].args = <<call.args[1]>>

\* a fileset that was created with its mountpoint set and not mounted: the
\* helper mounts it and does not set the mountpoint
C14_Witness ==
    /\ call.op = "create_fileset"
    /\ RootMountCreates # <<>>
    /\ _pe_helper = SudoPEHelper
    /\ pe_helper_mode = USE_IF_REQUIRED
    /\ MountpointOptions # {}
    /\ Len(Probes(S_mountpoint)) = 1
    /\ Probes(S_mountpoint)[1].ret.value = RequestedMountpoint
    /\ Len(Probes(S_mounted)) = 1
    /\ Probes(S_mounted)[1].ret.value = S_no
    /\ MountpointHelperCalls = <<>>
    /\ Len(MountHelperCalls) = 1
    /\ call.exc = "none"
    /\ call.ret.pytype = "Dataset"

\* C15: when the create command reports that the fileset was created but may
\* only be mounted by root and the effective mode is DO_NOT_USE (no helper is
\* set, or the mode forbids it), create_fileset fails with a permission
\* error, calls no helper capability and returns no Dataset.
C15_CreateWithoutHelper ==
    (/\ call.op = "create_fileset"
     /\ RootMountCreates # <<>>
     /\ pe_helper_mode = DO_NOT_USE)
        => /\ call.exc \in PermissionKinds
           /\ HelperCalls = <<>>
           /\ call.ret = PyNone
           /\ Len(OfKind(call.trace, "proc")) = 3

\* a fileset with a mountpoint was created on an instance without a helper
C15_Witness ==
    /\ call.op = "create_fileset"
    /\ RootMountCreates # <<>>
    /\ _pe_helper = None
    /\ _pe_helper_mode = USE_IF_REQUIRED
    /\ call.args[2] = <<"/","m">>
    /\ call.exc = "builtins.PermissionError"

\* the first phrase, in the order of the rules, that the text err contains;
\* D_OTHER when it contains none of them
FirstRule(err) ==
    LET rules == <<D_NO_DATASET, D_BAD_PROPERTY, D_DENIED, D_ROOT_MOUNT>>
        hits == {i \in 1..Len(rules) : Contains(err, rules[i])}
    IN  IF hits = {} THEN D_OTHER ELSE rules[CHOOSE i \in hits : \A j \in hits : i <= j]

\* C17: handle_command_error raises the error of the first rule that matches
\* the stderr text, in the order 'dataset does not exist' (DatasetNotFound),
\* 'bad property list: invalid property' (PropertyNotFound), 'permission
\* denied' (a permission error), 'filesystem successfully created, but it
\* may only be mounted by root' (a permission error), and otherwise a generic
\* failure that carries the whole text; it never returns normally.
C17_OrderedClassification ==
    call.op = "handle_command_error"
        => /\ call.exc # "none"
           /\ call.trace[1].exc = call.exc
           /\ CASE FirstRule(call.args[1]) = D_NO_DATASET -> call.exc = "DatasetNotFound"
                [] FirstRule(call.args[1]) = D_BAD_PROPERTY -> call.exc = "PropertyNotFound"
                [] FirstRule(call.args[1]) = D_DENIED -> call.exc \in PermissionKinds
                [] FirstRule(call.args[1]) = D_ROOT_MOUNT -> call.exc \in PermissionKinds
                [] OTHER -> /\ call.exc = "Exception"
                            /\ call.trace[1].text = call.args[1]

\* a text with 'permission denied' before 'dataset does not exist' was
\* classified as a missing dataset
C17_Witness ==
    /\ call.op = "handle_command_error"
    /\ call.args[1] = <<D_DENIED, D_NO_DATASET>>
    /\ call.exc = "DatasetNotFound"

\* the answer of a process counts as a failure: a non-zero exit code, or
\* anything on stderr
Failed(e) == e.rc # 0 \/ e.err # <<>>

\* the errors a helper raises for a command that failed
HelperFailures == {"PEHelperException", "ExternalPEHelperException"}

\* entry i of the trace is the last one, and the call ended with the
\* error handle_command_error raises for its stderr
EndsClassified(i) ==
    /\ i = Len(call.trace)
    /\ call.exc = handle_command_error(call.trace[i].err).exc
    /\ call.msg = handle_command_error(call.trace[i].err).msg

\* the backend call that ran the command at entry i of the trace
EnclosingBackend(i) ==
    call.trace[CHOOSE j \in 1..(i-1) :
                  /\ call.trace[j].kind = "backend"
                  /\ \A k \in (j+1)..(i-1) : call.trace[k].kind # "backend"]

\* entry i of the trace is followed by a call of capability cap of the helper
HelperNext(i, cap) ==
    /\ i < Len(call.trace)
    /\ call.trace[i+1].kind = "helper"
    /\ call.trace[i+1].cap = cap

\* the command at entry i of the trace was handled as a failure
FailurePath(i) ==
    LET e == call.trace[i]
        denied == /\ i = Len(call.trace)
                  /\ call.exc \in PermissionKinds
    IN  CASE e.argv[1] \in {SUDO_EXE, EXTERNAL_EXE} ->
                i = Len(call.trace) /\ call.exc \in HelperFailures
          [] e.argv[1] = ZFS_EXE /\ e.argv[2] \in {S_get, S_set} ->
                EnclosingBackend(i).exc = handle_command_error(e.err).exc
          [] e.argv[1] = ZFS_EXE /\ e.argv[2] = S_list -> EndsClassified(i)
          [] e.argv[1] = ZFS_EXE /\ e.argv[2] = S_create ->
                IF Contains(e.err, D_ROOT_MOUNT)
                THEN \/ denied
                     \/ /\ i < Len(call.trace)
                        /\ call.trace[i+1].kind = "backend"
                        /\ call.trace[i+1].args[2] = S_mountpoint
                ELSE EndsClassified(i)
          [] e.argv[1] = ZFS_EXE /\ e.argv[2] = S_destroy ->
                IF Contains(e.err, D_HAS_CHILDREN)
                THEN /\ i = Len(call.trace)
                     /\ call.exc = (IF IsSet(call.args[2]) THEN "none" ELSE "Exception")
                ELSE IF \/ Contains(e.err, D_CANNOT_DESTROY) /\ Contains(e.err, D_DENIED)
                        \/ Contains(e.err, D_ONLY_ROOT)
                THEN denied \/ HelperNext(i, "zfs_destroy_dataset")
                ELSE IF Contains(e.err, D_CANNOT_UMOUNT) /\ Contains(e.err, D_UMOUNT_FAILED)
                THEN denied \/ HelperNext(i, "zfs_umount")
                ELSE EndsClassified(i)

\* the command at entry i of the trace was handled as a success
SuccessPath(i) ==
    LET e == call.trace[i]
    IN  CASE e.argv[1] \in {SUDO_EXE, EXTERNAL_EXE} ->
                ~(i = Len(call.trace) /\ call.exc \in HelperFailures)
          [] e.argv[1] = ZFS_EXE /\ e.argv[2] = S_set -> EnclosingBackend(i).exc = "none"
          [] e.argv[1] = ZFS_EXE /\ e.argv[2] = S_get ->
                \/ EnclosingBackend(i).exc = "none"
                \/ /\ EnclosingBackend(i).exc \in {"ValueError", "Exception", "PropertyNotFound"}
                   /\ i = Len(call.trace) => call.msg \in {"values to unpack", "expected name",
                                                            "Property was not found",
                                                            "not a valid PropertySource",
                                                            "The dataset could not be found"}
          [] e.argv[1] = ZFS_EXE /\ e.argv[2] = S_list ->
                i = Len(call.trace) /\ call.exc \in {"none", "ValidationError"}
          [] e.argv[1] = ZFS_EXE /\ e.argv[2] = S_create ->
                /\ i < Len(call.trace)
                /\ call.trace[i+1].kind = "proc"
                /\ call.trace[i+1].argv[2] = S_list
          [] e.argv[1] = ZFS_EXE /\ e.argv[2] = S_destroy ->
                i = Len(call.trace) /\ call.exc = "none"

SinglePropertyCall == call.op \in {"get_property", "set_property"}

\* the arguments of the last get_property or set_property call
CalledKey == call.args[2]

CalledMetadata == IsSet(call.args[IF call.op = "get_property" THEN 3 ELSE 4])

CalledOverride == call.args[IF call.op = "get_property" THEN 4 ELSE 5]

\* the backend method the last get_property or set_property call delegates to
DelegateFn == IF call.op = "get_property" THEN "_get_property" ELSE "_set_property"

\* the namespace the last call had available: the override when one is
\* given, else the configured one, else None
AvailableNamespace ==
    IF Truthy(CalledOverride) THEN CalledOverride
    ELSE IF Truthy(_metadata_namespace) THEN _metadata_namespace
    ELSE None

\* the name a metadata call is expected to delegate
QualifiedKey == AvailableNamespace \o <<":">> \o CalledKey

\* the arguments of the last call other than the key and the namespace
\* validate, and so does the qualified name
OtherwiseValid ==
    /\ validate_dataset_identity(call.args[1]) = OK
    /\ call.op = "set_property" => validate_property_value(call.args[3]) = OK
    /\ validate_metadata_property_name(QualifiedKey) = OK

\* the last call delegated first to its backend method, with this name and
\* is_metadata true
DelegatedAs(name) ==
    /\ Len(call.trace) > 0
    /\ call.trace[1].kind = "backend"
    /\ call.trace[1].fn = DelegateFn
    /\ call.trace[1].args[1] = call.args[1]
    /\ call.trace[1].args[2] = name
    /\ call.trace[1].args[Len(call.trace[1].args)] = Flag(TRUE)

\* C18: get_property and set_property with the key "all" and metadata not
\* set fail with ValidationError without reaching the backend; with
\* metadata set and a namespace available, "all" is accepted and delegated
\* to the backend as "<ns>:all" with is_metadata true.
C18_AllKey ==
    (SinglePropertyCall /\ CalledKey = S_all) =>
        IF ~CalledMetadata
        THEN call.exc = "ValidationError" /\ call.trace = <<>>
        ELSE (AvailableNamespace # None /\ OtherwiseValid)
                 => DelegatedAs(AvailableNamespace \o <<":","a","l","l">>)

\* get_property with the key "all" and metadata set was delegated under
\* the configured namespace
C18_Witness ==
    /\ call.op = "get_property"
    /\ CalledKey = S_all
    /\ CalledMetadata
    /\ CalledOverride = None
    /\ DelegatedAs(<<"n","s",":","a","l","l">>)

\* C19: for get_property and set_property with metadata set, the name
\* delegated to the backend is "<override>:<key>" when an override is given,
\* else "<configured namespace>:<key>", else the call fails with
\* ValidationError 'no metadata namespace set'; both operations resolve the
\* same name for the same inputs and pass is_metadata true.
C19_NamespaceResolution ==
    (SinglePropertyCall /\ CalledMetadata) =>
        IF AvailableNamespace = None
        THEN /\ call.exc = "ValidationError"
             /\ call.trace = <<>>
             /\ validate_dataset_identity(call.args[1]) = OK
                    => call.msg = "no metadata namespace set"
        ELSE /\ OtherwiseValid => DelegatedAs(QualifiedKey)
             /\ \A i \in 1..Len(call.trace) :
                    call.trace[i].kind = "backend"
                        => /\ call.trace[i].fn = DelegateFn
                           /\ call.trace[i].args[2] = QualifiedKey
                           /\ call.trace[i].args[Len(call.trace[i].args)] = Flag(TRUE)

\* set_property was given an override while a namespace was configured, and
\* delegated under the override
C19_Witness ==
    /\ call.op = "set_property"
    /\ CalledMetadata
    /\ CalledOverride = <<"o">>
    /\ _metadata_namespace = <<"n","s">>
    /\ DelegatedAs(<<"o",":","t","y","p","e">>)

\* a metadata call without any namespace failed after its dataset validated
C19_WitnessNoNamespace ==
    /\ call.op = "get_property"
    /\ CalledMetadata
    /\ AvailableNamespace = None
    /\ validate_dataset_identity(call.args[1]) = OK
    /\ call.msg = "no metadata namespace set"

\* the rows the command of the last call printed
ProcRows == OfKind(call.trace, "proc")[1].out

\* prop reports the backend property name as its namespace, the part before
\* the first ':', and its key, the remainder
SplitsName(prop, name) ==
    /\ prop.namespace = Split(name, ":")[1]
    /\ prop.namespace \o <<":">> \o prop.key = name

\* the last call was a get_property of ZFSCli that returned a metadata property
ReturnedMetadataProperty ==
    /\ cls = "ZFSCli"
    /\ call.op = "get_property"
    /\ call.exc = "none"
    /\ call.ret.namespace # None

\* the last call was a get_properties of ZFSCli that returned its list with
\* the metadata properties included
ReturnedMetadataList ==
    /\ cls = "ZFSCli"
    /\ call.op = "get_properties"
    /\ call.exc = "none"
    /\ IsSet(call.args[2])

\* C20: for every metadata Property returned by get_property or
\* get_properties, namespace is the part of the backend property name before
\* the first ':' and key is the remainder, so that namespace + ':' + key is
\* the backend property name ('user:resu' is reported with key 'resu').
C20_KeysExcludeNamespace ==
    /\ ReturnedMetadataProperty => SplitsName(call.ret, ProcRows[1][2])
    /\ ReturnedMetadataList =>
           \A j \in 1..Len(call.ret.items) :
               call.ret.items[j].namespace # None
                   => SplitsName(call.ret.items[j], ProcRows[j][2])

\* the last call was a get_properties of ZFSCli that returned its list
\* with the metadata properties left out
ReturnedNativeList ==
    /\ cls = "ZFSCli"
    /\ call.op = "get_properties"
    /\ call.exc = "none"
    /\ ~IsSet(call.args[2])

\* the rows of the command of the last call whose property name has no ':'
NativeRows == SelectSeq(ProcRows, LAMBDA f : ~HasChar(f[2], ":"))

\* C21: get_properties with include_metadata false returns no Property that
\* came from a backend row whose property name contains ':', and returns
\* exactly one Property, in order, for every backend row whose property
\* name contains no ':'.
C21_MetadataSuppressed ==
    ReturnedNativeList =>
        /\ Len(call.ret.items) = Len(NativeRows)
        /\ \A j \in 1..Len(call.ret.items) :
               /\ call.ret.items[j].key = NativeRows[j][2]
               /\ call.ret.items[j].value = NativeRows[j][3]
               /\ call.ret.items[j].namespace = None
               /\ ~HasChar(call.ret.items[j].key, ":")

\* a list was returned for an answer with a metadata row between two
\* native rows
C21_Witness ==
    /\ ReturnedNativeList
    /\ Len(ProcRows) = 3
    /\ HasChar(ProcRows[2][2], ":")
    /\ Len(call.ret.items) = 2

\* the commands `zfs create ...` in the trace of the last call
CreateCommands ==
    SelectSeq(call.trace, LAMBDA e : e.kind = "proc" /\ Len(e.argv) > 1 /\ e.argv[2] = S_create)

\* what an existence probe said, from the outcome of its _get_property call
ProbeSays(e) ==
    IF e.exc \in {"DatasetNotFound", "PermissionError", "PoolNotFound"} THEN "no"
    ELSE IF e.exc \in {"none", "PropertyNotFound"} THEN "yes"
    ELSE "error"

\* the existence probes of the last call, in order
ExistenceProbes == BackendCalls("_get_property")

\* the properties the last create_volume call hands to create_dataset
VolumeProperties ==
    LET properties == CHOOSE d \in BlocksizePropertiesArgs : DictRepr(d) = call.args[5]
    IN  IF call.args[4] # None
        THEN BlocksizeDict(call.args[4])
        ELSE properties

\* the blocksize of the last create_volume call is no integer, lies outside
\* [2, 131072] or is no power of two
BadBlocksize ==
    /\ VolumeProperties.pytype = "dict"
    /\ LET b == IntParse(DictGet(VolumeProperties, S_blocksize))
       IN  \/ ~b.ok
           \/ b.v < 2
           \/ b.v > 131072
           \/ \A k \in 1..17 : b.v # 2^k

\* the size of the last create_volume call is missing or below 1
BadSize == call.args[2] = None \/ IntParse(call.args[2]).v < 1

\* the last call is a create_volume that found the volume absent and its
\* parent present, or absent with recursive set
VolumeChecksReached ==
    /\ call.op = "create_volume"
    /\ Len(ExistenceProbes) = 2
    /\ ProbeSays(ExistenceProbes[1]) = "no"
    /\ ProbeSays(ExistenceProbes[2]) = "yes" \/ (ProbeSays(ExistenceProbes[2]) = "no" /\ IsSet(call.args[7]))

\* C22 without the reason given for a size of 0: a create_volume with a
\* missing or low size or a bad blocksize issues no create command, and
\* fails with ValidationError once the existence checks have passed
VolumeArgumentsRefused ==
    (call.op = "create_volume" /\ (BadSize \/ BadBlocksize)) =>
        /\ Len(CreateCommands) = 0
        /\ call.exc # "none"
        /\ VolumeChecksReached => call.exc = "ValidationError"

\* C22: creating a volume fails with ValidationError when size is missing,
\* when size is below 1 (size=0 fails with the reason 'too low'), and when
\* a blocksize property is not an integer, lies outside [2, 131072] or is
\* not a power of two; in each case no create command is issued.
C22_VolumeValidation ==
    /\ VolumeArgumentsRefused
    /\ (VolumeChecksReached /\ call.args[2] = <<"0">>) => call.msg = "Size is too low"

\* a create_volume with good arguments issued its create command
GoodVolumeCreated ==
    /\ call.op = "create_volume"
    /\ ~BadSize
    /\ ~BadBlocksize
    /\ Len(CreateCommands) = 1

\* the last call was a create_dataset of a bookmark, or of a fileset or a
\* volume with a name without '/'
RejectedCreation ==
    /\ call.op = "create_dataset"
    /\ \/ call.args[2] = DatasetType_BOOKMARK
       \/ /\ ~HasChar(call.args[1], "/")
          /\ call.args[2] \in {DatasetType_FILESET, DatasetType_VOLUME}

\* every existence probe of the last call was answered with yes or no
ProbesAnswered == \A i \in 1..Len(ExistenceProbes) : ProbeSays(ExistenceProbes[i]) # "error"

\* C23: create_dataset fails with ValidationError for dataset_type BOOKMARK
\* and for every name without '/' with type FILESET or VOLUME, whether or
\* not a dataset of that name exists, and without issuing a create command.
C23_CreationRejections ==
    RejectedCreation =>
        /\ Len(CreateCommands) = 0
        /\ ProbesAnswered => call.exc = "ValidationError"

\* the part of C23 that does not depend on the existence of the dataset
RejectedWhenAbsent ==
    RejectedCreation =>
        /\ Len(CreateCommands) = 0
        /\ call.exc # "none"
        /\ (ProbesAnswered /\ \A i \in 1..Len(ExistenceProbes) : ProbeSays(ExistenceProbes[i]) = "no")
              => call.exc = "ValidationError"

\* the parent of the dataset the last create_dataset call names: the part
\* before '@' for a snapshot, else the name without its last segment
CalledParent ==
    IF call.args[2] = DatasetType_SNAPSHOT THEN Split(call.args[1], "@")[1]
    ELSE SubSeq(call.args[1], 1, LastIndex(call.args[1], "/") - 1)

\* the last create_dataset call found the dataset absent, probed its parent
\* and found it absent
ParentMissing ==
    /\ call.op = "create_dataset"
    /\ call.args[2] \in {DatasetType_FILESET, DatasetType_VOLUME, DatasetType_SNAPSHOT}
    /\ Len(ExistenceProbes) >= 2
    /\ ProbeSays(ExistenceProbes[1]) = "no"
    /\ ExistenceProbes[2].args[1] = CalledParent
    /\ ProbeSays(ExistenceProbes[2]) = "no"

\* the calls of the backend methods that create a dataset, in the last call
CreateBackendCalls ==
    SelectSeq(call.trace,
              LAMBDA e : e.kind = "backend"
                         /\ e.fn \in {"_create_fileset", "_create_volume", "_create_snapshot"})

\* C24: for FILESET/VOLUME with recursive false, and for SNAPSHOT always,
\* create_dataset fails with DatasetNotFound and issues no create command
\* when the parent does not exist; with recursive true a missing parent
\* does not block the creation of a FILESET or VOLUME.
C24_ParentExistence ==
    ParentMissing =>
        IF call.args[2] = DatasetType_SNAPSHOT \/ ~IsSet(call.args[7])
        THEN /\ call.exc = "DatasetNotFound"
             /\ Len(CreateCommands) = 0
             /\ Len(CreateBackendCalls) = 0
        ELSE \/ /\ Len(CreateBackendCalls) = 1
                /\ CreateBackendCalls[1].fn =
                       (IF call.args[2] = DatasetType_VOLUME THEN "_create_volume"
                        ELSE "_create_fileset")
             \/ /\ call.args[2] = DatasetType_VOLUME
                /\ call.args[6] = None
                /\ call.exc = "ValidationError"

\* a snapshot was asked for with recursive set and its parent is missing
C24_Witness ==
    /\ ParentMissing
    /\ call.args[2] = DatasetType_SNAPSHOT
    /\ IsSet(call.args[7])
    /\ call.exc = "DatasetNotFound"

\* a fileset was created below a missing parent with recursive set
CreatedBelowMissingParent ==
    /\ ParentMissing
    /\ call.args[2] = DatasetType_FILESET
    /\ Len(CreateCommands) = 1
    /\ call.exc = "none"

\* Dataset.from_string accepted the path of the last call
ParsedPath == call.op = "Dataset.from_string" /\ call.exc = "none"

\* C25: for every valid path p, Dataset.from_string(p) yields full_path p,
\* pool the first '/'-separated segment, name the last segment and parent p
\* without its last segment; for a name with no '/', pool, name and
\* full_path are equal and parent is None.
C25_DatasetRoundTrip ==
    ParsedPath =>
        LET p == call.args[1]
            segments == Split(p, "/")
            d == call.ret
        IN  /\ d.full_path = p
            /\ d.pool = segments[1]
            /\ d.name = segments[Len(segments)]
            /\ IF HasChar(p, "/")
               THEN /\ d.parent # None
                    /\ d.parent \o <<"/">> \o d.name = p
               ELSE /\ d.pool = p
                    /\ d.name = p
                    /\ d.parent = None

\* a snapshot two levels below its pool was parsed
C25_Witness ==
    /\ ParsedPath
    /\ call.args[1] = <<"t","/","a","/","b","@","s">>
    /\ call.ret.parent = <<"t","/","a">>
    /\ call.ret.type = "snapshot"

\* a name that is a reserved word, starts with mirror, raidz or spare, or
\* starts with 'c' and a digit
ReservedPoolName(name) ==
    \/ name \in {<<"m","i","r","r","o","r">>, <<"r","a","i","d","z">>, <<"s","p","a","r","e">>,
                 <<"l","o","g">>}
    \/ StartsWith(name, <<"m","i","r","r","o","r">>)
    \/ StartsWith(name, <<"r","a","i","d","z">>)
    \/ StartsWith(name, <<"s","p","a","r","e">>)
    \/ (Len(name) >= 2 /\ name[1] = "c" /\ name[2] \in Digit)

\* C26: validate_pool_name fails for every name that is exactly mirror,
\* raidz, spare or log, that starts with mirror, raidz or spare, or that
\* starts with 'c' followed by a digit, and accepts names that merely start
\* with 'log' when they otherwise match the grammar.
C26_PoolNameRejection ==
    call.op = "validate_pool_name" =>
        LET name == call.args[1]
        IN  /\ ReservedPoolName(name) => call.exc = "ValidationError"
            /\ (StartsWith(name, <<"l","o","g">>) /\ name # <<"l","o","g">>
                    /\ PoolNameReMatch(name))
                  => call.exc = "none"

\* a name that goes on after 'log' was accepted
C26_Witness ==
    /\ call.op = "validate_pool_name"
    /\ call.args[1] = <<"l","o","g","g","e","r">>
    /\ call.exc = "none"

\* C27: validate_property_value accepts every value whose encoded length
\* is at most 8191 bytes and fails with a length-exceeded ValidationError
\* for every value of 8192 bytes or more.
C27_ValueLengthBoundary ==
    call.op = "validate_property_value" =>
        IF Utf8Len(call.args[1]) <= 8191
        THEN call.exc = "none"
        ELSE call.exc = "ValidationError" /\ call.msg = "length > 8191"

\* a value of 8191 characters and 8192 bytes was refused
C27_Witness ==
    /\ call.op = "validate_property_value"
    /\ Len(call.args[1]) = 8191
    /\ Utf8Len(call.args[1]) = 8192
    /\ call.exc = "ValidationError"

\* the step is an assignment `zfs.use_pe_helper = use`
AssignsUsePeHelper(use) ==
    /\ call.op = "idle"
    /\ call'.op = "use_pe_helper="
    /\ call'.args = <<Flag(use)>>

\* C28: assigning False to the deprecated use_pe_helper property sets the mode
\* to DO_NOT_USE; assigning True sets the mode to USE_IF_REQUIRED, unless the
\* mode is already USE_PROACTIVE, in which case the mode is left unchanged.
C28_DeprecatedSetter ==
    [][/\ AssignsUsePeHelper(FALSE) => _pe_helper_mode' = DO_NOT_USE
       /\ AssignsUsePeHelper(TRUE) =>
            IF _pe_helper_mode = USE_PROACTIVE
            THEN _pe_helper_mode' = USE_PROACTIVE
            ELSE _pe_helper_mode' = USE_IF_REQUIRED]_vars

\* what the setter does instead: True turns an effective DO_NOT_USE into
\* USE_PROACTIVE and leaves every other mode alone; False is as C28 says
UsePeHelperAsCoded ==
    [][/\ AssignsUsePeHelper(FALSE) => _pe_helper_mode' = DO_NOT_USE
       /\ AssignsUsePeHelper(TRUE) =>
            IF pe_helper_mode = DO_NOT_USE
            THEN _pe_helper_mode' = USE_PROACTIVE
            ELSE _pe_helper_mode' = _pe_helper_mode]_vars

\* the mode a call decides with: set_mountpoint takes it from its argument
\* pe_helper_mode when that is given, every method otherwise from the property
EffectiveMode ==
    IF call.op = "set_mountpoint" /\ call.args[3] # None THEN call.args[3] ELSE pe_helper_mode

\* the methods that fall back to the PE helper
EscalatingCall == call.op \in {"set_mountpoint", "create_fileset", "destroy_dataset"}

\* the diagnostics the code takes for a lack of permissions: the two phrases
\* of handle_command_error and 'only root can' of _destroy_dataset
PermissionDiagnostic(err) ==
    \/ Contains(err, D_DENIED)
    \/ Contains(err, D_ROOT_MOUNT)
    \/ Contains(err, D_ONLY_ROOT)

\* the diagnostic of a destroy that could not unmount the dataset
UmountDiagnostic(err) == Contains(err, D_CANNOT_UMOUNT) /\ Contains(err, D_UMOUNT_FAILED)

\* entry j of the trace is a zfs command, run without the helper, that failed
UnprivilegedFailure(j) ==
    /\ call.trace[j].kind = "proc"
    /\ call.trace[j].argv[1] = ZFS_EXE
    /\ Failed(call.trace[j])

\* the helper calls of the trace, as positions
HelperPositions == {i \in DOMAIN call.trace : call.trace[i].kind = "helper"}

\* C29: when the effective mode is USE_IF_REQUIRED, every helper capability
\* invoked during set_mountpoint, fileset creation or destroy_dataset is
\* preceded, within the same call, by an unprivileged backend invocation that
\* failed with a diagnostic classified as a permission issue.
C29_EscalationAfterPermissionFailure ==
    (EscalatingCall /\ EffectiveMode = USE_IF_REQUIRED)
        => \A i \in HelperPositions :
               \E j \in 1..(i - 1) :
                   UnprivilegedFailure(j) /\ PermissionDiagnostic(call.trace[j].err)

\* C29, amended: when the effective mode is USE_IF_REQUIRED, every helper
\* capability invoked during set_mountpoint, fileset creation or
\* destroy_dataset is preceded, within the same call, by an unprivileged
\* backend invocation that failed, either with a diagnostic classified as a
\* permission issue or, for the helper's unmount in destroy_dataset, with the
\* diagnostic of a failed unmount.
C29_EscalationAfterFailure ==
    (EscalatingCall /\ EffectiveMode = USE_IF_REQUIRED)
        => \A i \in HelperPositions :
               \E j \in 1..(i - 1) :
                   /\ UnprivilegedFailure(j)
                   /\ \/ PermissionDiagnostic(call.trace[j].err)
                      \/ /\ call.op = "destroy_dataset"
                         /\ call.trace[i].cap = "zfs_umount"
                         /\ UmountDiagnostic(call.trace[j].err)

\* under USE_IF_REQUIRED a destroy that was denied was handed to the helper,
\* which destroyed the dataset
C29_Witness ==
    /\ call.op = "destroy_dataset"
    /\ EffectiveMode = USE_IF_REQUIRED
    /\ \E i \in HelperPositions : call.trace[i].cap = "zfs_destroy_dataset"
    /\ call.exc = "none"

\* under USE_IF_REQUIRED a helper that can unmount did so after a destroy that
\* could not unmount, and the destroy that followed succeeded
C29_WitnessUmount ==
    /\ call.op = "destroy_dataset"
    /\ EffectiveMode = USE_IF_REQUIRED
    /\ _pe_helper = UmountPEHelper
    /\ \E i \in HelperPositions : call.trace[i].cap = "zfs_umount"
    /\ call.exc = "none"

\* under USE_IF_REQUIRED the helper set the mountpoint of a created fileset
C29_WitnessCreate ==
    /\ call.op = "create_fileset"
    /\ EffectiveMode = USE_IF_REQUIRED
    /\ \E i \in HelperPositions : call.trace[i].cap = "zfs_set_mountpoint"

\* under USE_IF_REQUIRED set_mountpoint called the helper
SetMountpointEscalated ==
    /\ call.op = "set_mountpoint"
    /\ EffectiveMode = USE_IF_REQUIRED
    /\ HelperPositions # {}

\* the positions of the `zfs destroy` commands in the trace
DestroyPositions ==
    {i \in DOMAIN call.trace :
        /\ call.trace[i].kind = "proc"
        /\ call.trace[i].argv[1] = ZFS_EXE
        /\ call.trace[i].argv[2] = S_destroy}

\* the part of the trace ahead of the first destroy command; the whole trace
\* when no destroy command was run
BeforeFirstDestroy ==
    {i \in DOMAIN call.trace : \A d \in DestroyPositions : i < d}

\* the positions, ahead of the first destroy command, of the probes of the
\* property `mounted`
MountedProbes ==
    {i \in BeforeFirstDestroy :
        /\ call.trace[i].kind = "backend"
        /\ call.trace[i].fn = "_get_property"
        /\ call.trace[i].args[2] = S_mounted}

\* the positions, ahead of the first destroy command, of the calls of the
\* helper's zfs_umount
ProactiveUmounts ==
    {i \in BeforeFirstDestroy :
        call.trace[i].kind = "helper" /\ call.trace[i].cap = "zfs_umount"}

\* the last call is a destroy_dataset that reached ZFSCli._destroy_dataset
DestroyReachedBackend ==
    /\ call.op = "destroy_dataset"
    /\ cls = "ZFSCli"
    /\ Len(BackendCalls("_destroy_dataset")) > 0

\* a helper is configured and the mode is USE_PROACTIVE
ProactiveDestroy == _pe_helper # None /\ _pe_helper_mode = USE_PROACTIVE

\* C30: when a helper is configured and the mode is USE_PROACTIVE, destroy
\* probes the `mounted` property and invokes the helper's unmount before the
\* backend destroy command if and only if the value is 'yes'; in every other
\* mode no helper call precedes the first backend destroy command.
C30_ProactiveUnmountOrdering ==
    DestroyReachedBackend
        => IF ProactiveDestroy
           THEN /\ Cardinality(MountedProbes) = 1
                /\ \A p \in MountedProbes :
                       /\ (call.trace[p].exc = "none" /\ call.trace[p].ret.value = S_yes)
                              <=> ProactiveUmounts # {}
                       /\ \A u \in ProactiveUmounts : p < u
                       /\ call.trace[p].exc # "none" => DestroyPositions = {}
                /\ \A i \in BeforeFirstDestroy :
                       call.trace[i].kind = "helper" => i \in ProactiveUmounts
           ELSE \A i \in BeforeFirstDestroy : call.trace[i].kind # "helper"

\* with USE_PROACTIVE the probe answered 'yes', the helper unmounted and the
\* destroy command that followed succeeded
C30_Witness ==
    /\ DestroyReachedBackend
    /\ ProactiveDestroy
    /\ \E p \in MountedProbes : call.trace[p].exc = "none" /\ call.trace[p].ret.value = S_yes
    /\ ProactiveUmounts # {}
    /\ DestroyPositions # {}
    /\ call.exc = "none"

\* with USE_PROACTIVE the probe answered something else than 'yes' and the
\* destroy command was run with no helper call ahead of it
C30_WitnessNotMounted ==
    /\ DestroyReachedBackend
    /\ ProactiveDestroy
    /\ \E p \in MountedProbes : call.trace[p].exc = "none" /\ call.trace[p].ret.value # S_yes
    /\ ProactiveUmounts = {}
    /\ DestroyPositions # {}

\* with USE_IF_REQUIRED the helper was called, after the first destroy command
C30_WitnessOtherMode ==
    /\ DestroyReachedBackend
    /\ _pe_helper # None
    /\ _pe_helper_mode = USE_IF_REQUIRED
    /\ HelperPositions # {}
    /\ MountedProbes = {}

\* a `zfs destroy` command of the trace that succeeded
DestroySucceeded == \E d \in DestroyPositions : ~Failed(call.trace[d])

\* the helper's zfs_destroy_dataset was called
HelperDestroyed ==
    \E i \in HelperPositions : call.trace[i].cap = "zfs_destroy_dataset"

\* C31: destroy_dataset returns normally only if a backend destroy command
\* succeeded or the helper's destroy succeeded; every other backend failure,
\* including a 'has children' diagnostic with or without recursive, ends in
\* an error raised to the caller.
C31_NoSwallowedDestroyFailure ==
    (call.op = "destroy_dataset" /\ cls = "ZFSCli" /\ call.exc = "none")
        => DestroySucceeded \/ HelperDestroyed

\* the same with the 'has children' answer to a recursive destroy set aside
DestroyFailureRaised ==
    (/\ call.op = "destroy_dataset"
     /\ cls = "ZFSCli"
     /\ call.exc = "none"
     /\ ~(\E d \in DestroyPositions :
              Contains(call.trace[d].err, D_HAS_CHILDREN) /\ IsSet(call.args[2])))
        => DestroySucceeded \/ HelperDestroyed

\* 'has children' without recursive ends in an error
HasChildrenRaised ==
    (/\ call.op = "destroy_dataset"
     /\ cls = "ZFSCli"
     /\ ~IsSet(call.args[2])
     /\ \E d \in DestroyPositions : Contains(call.trace[d].err, D_HAS_CHILDREN))
        => call.exc # "none"

\* the external processes the last call ran
ProcPositions == {i \in DOMAIN call.trace : call.trace[i].kind = "proc"}

\* the last call created a dataset through create_dataset
CreateCall == call.op \in {"create_dataset", "create_fileset", "create_volume"}

\* C32: in create_dataset, validation of the name, every native and metadata
\* property and the type-specific arguments completes before any backend
\* invocation, so a call that fails with ValidationError has made no
\* external process invocation.
C32_ValidationBeforeBackend ==
    (CreateCall /\ call.exc = "ValidationError") => ProcPositions = {}

\* what holds: every process run by a create that create_dataset itself
\* refused, ahead of the backend's create method, is an existence probe
ProbesBeforeValidation ==
    (CreateCall /\ call.exc = "ValidationError" /\ Len(CreateBackendCalls) = 0)
        => \A i \in ProcPositions :
               call.trace[i].argv[2] = S_get /\ call.trace[i].argv[5] = S_type

\* the same for the checks of create_dataset alone: a create that was refused
\* ahead of the backend's create method has run no process
OwnValidationBeforeBackend ==
    (CreateCall /\ call.exc = "ValidationError" /\ Len(CreateBackendCalls) = 0)
        => ProcPositions = {}

\* create_fileset on a well-formed path was refused for its properties after
\* the existence probe had run
PropertiesRefusedAfterProbe ==
    /\ call.op = "create_fileset"
    /\ call.args[1] = FILESET
    /\ call.exc = "ValidationError"
    /\ Len(CreateBackendCalls) = 0
    /\ Cardinality(ProcPositions) = 1

\* the capabilities PEHelperBase defines
PEHelperBase == {"zfs_mount", "zfs_set_mountpoint", "zfs_destroy_dataset"}

\* C33: every helper capability that the front end invokes (in
\* set_mountpoint, the fileset-creation fallback and destroy) is one of
\* zfs_mount, zfs_set_mountpoint, zfs_destroy_dataset, i.e. is defined by the
\* helper capability interface PEHelperBase.
C33_ClosedCapabilityInterface ==
    EscalatingCall => \A i \in HelperPositions : call.trace[i].cap \in PEHelperBase

\* what holds: outside destroy_dataset only capabilities of the interface are
\* invoked, and destroy_dataset adds zfs_umount to them and nothing else
CapabilitiesInvoked ==
    EscalatingCall
        => \A i \in HelperPositions :
               \/ call.trace[i].cap \in PEHelperBase
               \/ call.op = "destroy_dataset" /\ call.trace[i].cap = "zfs_umount"

\* a helper that keeps to the interface makes a destroy_dataset that invokes
\* zfs_umount end in AttributeError
UmountOutsideInterface ==
    (/\ call.op = "destroy_dataset"
     /\ _pe_helper \in {SudoPEHelper, ExternalPEHelper}
     /\ \E i \in HelperPositions : call.trace[i].cap = "zfs_umount")
        => call.exc = "AttributeError"

\* the last call is a call of a capability of the sudo helper
SudoCapabilityCall ==
    /\ call.op \in PEHelperBase
    /\ _pe_helper = SudoPEHelper

\* the last call is SudoPEHelper._execute_cmd with a command that, with
\* `sudo -n` ahead of it, has fewer than 4 tokens
ShortCommand ==
    /\ call.op = "_execute_cmd"
    /\ Len(call.args) + 2 < 4

\* the target of the capability fails the validation of pool names or of
\* dataset paths
InvalidTarget ==
    /\ SudoCapabilityCall
    /\ validate_dataset_identity(call.args[1]) # OK

\* zfs_destroy_dataset was given a name without '/'
PoolTarget ==
    /\ SudoCapabilityCall
    /\ call.op = "zfs_destroy_dataset"
    /\ ~HasChar(call.args[1], "/")

\* C34: the sudo strategy spawns no process when the assembled command
\* vector (elevation prefix included) has fewer than 4 tokens, when the
\* target name fails pool/path validation, or when zfs_destroy_dataset is
\* given a name without '/'; each capability validates the target before it
\* builds the elevated command.
C34_PrivilegedGuards ==
    /\ (ShortCommand \/ InvalidTarget \/ PoolTarget)
           => ProcPositions = {} /\ call.exc \in {"PEHelperException", "ValidationError"}
    /\ (SudoCapabilityCall \/ call.op = "_execute_cmd")
           => \A i \in ProcPositions :
                  /\ Len(call.trace[i].argv) >= 4
                  /\ call.trace[i].argv[1] = SUDO_EXE
                  /\ SudoCapabilityCall =>
                         /\ call.trace[i].argv[Len(call.trace[i].argv)] = call.args[1]
                         /\ validate_dataset_identity(call.args[1]) = OK

\* _execute_cmd was given `zfs` alone and refused to run it
C34_Witness ==
    /\ call.op = "_execute_cmd"
    /\ call.args = <<S_zfs>>
    /\ call.exc = "PEHelperException"
    /\ ProcPositions = {}

\* zfs_destroy_dataset of the sudo helper was given a pool and refused
C34_WitnessPool ==
    /\ PoolTarget
    /\ validate_pool_name(call.args[1]) = OK
    /\ call.exc = "ValidationError"
    /\ ProcPositions = {}

\* zfs_mount of the sudo helper ran `sudo -n zfs mount` on a valid fileset
C34_WitnessRun ==
    /\ SudoCapabilityCall
    /\ call.op = "zfs_mount"
    /\ Cardinality(ProcPositions) = 1
    /\ call.exc = "none"

\* what a call on the absent helper ends in: None has no attribute zfs_mount,
\* zfs_set_mountpoint, zfs_destroy_dataset or zfs_umount
DereferencedNone == call.exc = "AttributeError"

\* C35: for every configuration (helper set or unset, any stored mode, any
\* per-call mode override) and every front-end operation, a helper
\* capability is invoked only when a helper is configured; with no helper the
\* operation ends by returning or raising a library error, never by
\* dereferencing the absent helper.
C35_NoHelperCallWithoutHelper ==
    (call.op \notin {"idle", "__init__"} /\ _pe_helper = None)
        => /\ HelperPositions = {}
           /\ ~DereferencedNone

\* without a helper, and with the stored mode USE_PROACTIVE, a destroy that
\* was denied ended in a permission error and no helper call
C35_Witness ==
    /\ call.op = "destroy_dataset"
    /\ _pe_helper = None
    /\ _pe_helper_mode = USE_PROACTIVE
    /\ \E d \in DestroyPositions : PermissionDiagnostic(call.trace[d].err)
    /\ HelperPositions = {}
    /\ call.exc \in PermissionKinds

\* without a helper, a create that could only be mounted by root ended in a
\* permission error and no helper call
C35_WitnessCreate ==
    /\ call.op = "create_fileset"
    /\ _pe_helper = None
    /\ _pe_helper_mode = USE_IF_REQUIRED
    /\ \E i \in ProcPositions : Contains(call.trace[i].err, D_ROOT_MOUNT)
    /\ HelperPositions = {}
    /\ call.exc \in PermissionKinds

\* without a helper, a destroy that could not unmount ended in a permission
\* error and no helper call
C35_WitnessUmount ==
    /\ call.op = "destroy_dataset"
    /\ _pe_helper = None
    /\ \E d \in DestroyPositions : UmountDiagnostic(call.trace[d].err)
    /\ HelperPositions = {}
    /\ call.exc \in PermissionKinds

\* the assignments to the properties metadata_namespace, pe_helper,
\* pe_helper_mode and use_pe_helper
SetterOps == {"metadata_namespace=", "pe_helper=", "pe_helper_mode=", "use_pe_helper="}

\* C36: no front-end operation other than the explicit setters changes the
\* instance's metadata_namespace, pe_helper or stored pe_helper_mode; the
\* per-call pe_helper_mode override of set_mountpoint and the per-call
\* namespace override of get_property/set_property leave the stored values
\* unchanged, whether the call succeeds or fails.
C36_ConfigurationFrame ==
    [][call'.op \notin SetterOps
           => UNCHANGED <<_metadata_namespace, _pe_helper, _pe_helper_mode>>]_vars

\* set_mountpoint was called with a mode that is not the stored one, which
\* is still stored after the call
C36_Witness ==
    /\ call.op = "set_mountpoint"
    /\ call.args[3] # None
    /\ call.args[3] # _pe_helper_mode

\* get_property was called with a namespace that is not the stored one and
\* returned; the stored one is still stored
C36_WitnessNamespace ==
    /\ call.op = "get_property"
    /\ IsSet(call.args[3])
    /\ call.args[4] # None
    /\ call.args[4] # _metadata_namespace
    /\ call.exc = "none"

\* set_property was called with a namespace that is not the stored one and
\* failed; the stored one is still stored
C36_WitnessFailed ==
    /\ call.op = "set_property"
    /\ call.args[5] # None
    /\ call.args[5] # _metadata_namespace
    /\ call.exc # "none"

\* the path is a regular file that may be executed: what the setter of
\* ExternalPEHelper.executable asks of a candidate
RegularExecutable(path) == lstat(path) = "S_IFREG" /\ access_X_OK(path)

\* C37: when assigning a new executable to an ExternalPEHelper fails (path
\* missing, not a regular file, or not executable), the previously accepted
\* executable remains configured; after any sequence of assignments the
\* configured executable is the last candidate that passed the regular-file
\* and executable checks.
C37_ExecutableUnchangedOnReject ==
    [][call'.op = "executable="
           => IF RegularExecutable(Strip(call'.args[1]))
              THEN call'.exc = "none" /\ __exe' = Strip(call'.args[1])
              ELSE call'.exc = "FileNotFoundError" /\ __exe' = __exe]_vars

\* the configured executable always is a regular file that may be executed,
\* and no other step than an assignment changes it
ConfiguredExecutableAccepted ==
    /\ RegularExecutable(__exe)
    /\ (call.op = "executable" => call.ret = PyStr(__exe))

\* an assignment was refused while an executable accepted by an earlier
\* assignment is configured
C37_Witness ==
    /\ call.op = "executable="
    /\ call.exc = "FileNotFoundError"
    /\ __exe = EXECUTABLE_2
    /\ Strip(call.args[1]) # __exe

\* the external helper ran the executable that was assigned last
C37_WitnessUsed ==
    /\ call.op = "zfs_set_mountpoint"
    /\ _pe_helper = ExternalPEHelper
    /\ \E i \in ProcPositions : call.trace[i].argv[1] = EXECUTABLE_2

\* the last call creates a snapshot
SnapshotCall == call.op = "create_dataset" /\ call.args[2] = DatasetType_SNAPSHOT

\* C38: for every create operation that reaches the backend (fileset, volume,
\* snapshot), the invoked argument vector contains the validated name of the
\* dataset being created as its final argument.
C38_CreateNamesTarget ==
    CreateCall
        => \A i \in DOMAIN CreateCommands :
               CreateCommands[i].argv[Len(CreateCommands[i].argv)] = call.args[1]

\* the same for filesets and volumes alone
FilesetVolumeNamesTarget ==
    (CreateCall /\ ~SnapshotCall)
        => \A i \in DOMAIN CreateCommands :
               CreateCommands[i].argv[Len(CreateCommands[i].argv)] = call.args[1]

\* the command of a snapshot is `zfs create` with nothing after it
SnapshotCommandUnnamed ==
    SnapshotCall
        => \A i \in DOMAIN CreateCommands : CreateCommands[i].argv = <<ZFS_EXE, S_create>>

\* a snapshot reached the backend
SnapshotReachedBackend == SnapshotCall /\ Len(CreateCommands) = 1

\* the last call is a list_datasets whose `zfs list` command succeeded
ListingSucceeded ==
    /\ call.op = "list_datasets"
    /\ cls = "ZFSCli"
    /\ Cardinality(ProcPositions) = 1
    /\ \A i \in ProcPositions : ~Failed(call.trace[i])

\* the rows the `zfs list` command of the last call wrote
ListedRows == OfKind(call.trace, "proc")[1].out

\* the call returned one Dataset per row, in the order of the rows, each
\* with the name column of its row as its full path
OneDatasetPerRow ==
    /\ call.exc = "none"
    /\ call.ret.pytype = "list"
    /\ Len(call.ret.items) = Len(ListedRows)
    /\ \A i \in DOMAIN ListedRows :
           /\ call.ret.items[i].pytype = "Dataset"
           /\ call.ret.items[i].full_path = ListedRows[i][1]

\* C39: on a successful listing, list_datasets returns exactly one Dataset
\* per output row, in row order, built from the row's name column only; a
\* successful listing with empty output returns the empty list.
C39_OneDatasetPerRow == ListingSucceeded => OneDatasetPerRow

\* the same for listings that wrote at least one row
NonEmptyListingPerRow ==
    (ListingSucceeded /\ Len(ListedRows) > 0) => OneDatasetPerRow

\* a successful listing that wrote nothing ends in ValidationError
EmptyListingRaises ==
    (ListingSucceeded /\ Len(ListedRows) = 0) => call.exc = "ValidationError"

\* a listing of two rows returned two datasets
TwoRowsListed ==
    /\ ListingSucceeded
    /\ Len(ListedRows) = 2
    /\ OneDatasetPerRow

=============================================================================
